---- MODULE Spec2Model ----
(***************************************************************************)
(* A model of the kernel core: the thread manager (threads, conditions,    *)
(* locks), the FORK system call, the Sv39 address space, and the KTFS      *)
(* filesystem over its block cache.  Each subsystem has its own            *)
(* specification over its own variable; the other variables stay at their  *)
(* initial value under it.                                                  *)
(***************************************************************************)
EXTENDS Integers, Sequences, FiniteSets, TLC

VARIABLES K,    \* thread manager: thrtab, thread states, lists, locks, tp, sstatus.SIE
          P,    \* system call layer and processes (FORK)
          M,    \* physical pages and page tables
          F     \* filesystem: device, cache, open files
vars == <<K, P, M, F>>

(***************************************************************************)
(* THREADS  (thread.c)                                                     *)
(***************************************************************************)
\* Size of the thread table in the model (the code is built with NTHR 16).
NTHR == 4
\* Number of lock objects the threads of the model use.
NLOCK == 2
\* Number of thread-manager calls made by the threads of one run.
MaxOps == 6

MAIN_TID == 0
IDLE_TID == NTHR - 1
NULL == 0 - 1
Tids == 0 .. (NTHR - 1)
Locks == 0 .. (NLOCK - 1)

\* enum thread_state
THREAD_UNINITIALIZED == "uninitialized"
THREAD_WAITING == "waiting"
THREAD_SELF == "self"
THREAD_READY == "ready"
THREAD_EXITED == "exited"

\* Thread lists: the ready list, each thread's child_exit condition, each
\* lock's lock_release condition, and one condition a device ISR broadcasts.
READY_LIST == <<"ready_list", 0>>
ChildExit(t) == <<"child_exit", t>>
LockCond(l) == <<"lock_release", l>>
DEV_COND == <<"dev_cond", 0>>
ListIds == {READY_LIST, DEV_COND} \cup {ChildExit(t) : t \in Tids}
             \cup {LockCond(l) : l \in Locks}

\* One activation record of a thread's kernel stack: where it is, the pie
\* it saved, and up to one local.
Frame(pc, pie, a) == [pc |-> pc, pie |-> pie, a |-> a]
TopFrame == Frame("top", FALSE, NULL)
Top(S, t) == S.stk[t][Len(S.stk[t])]
Push(S, t, fr) == [S EXCEPT !.stk[t] = Append(@, fr)]
Pop(S, t) == [S EXCEPT !.stk[t] = SubSeq(@, 1, Len(@) - 1)]
SetTop(S, t, fr) == [S EXCEPT !.stk[t][Len(S.stk[t])] = fr]

\* assert() failing, or a NULL thread pointer being dereferenced, stops the kernel.
Panic(S, why) == [S EXCEPT !.sys = why]

\* tlinsert linking the thread in front of the head instead of behind the tail.
tlinsert_at_head(S, list, thr) ==
    LET L == S.tl[list]
    IN  IF L.head # NULL
        THEN [S EXCEPT !.list_next[thr] = L.head, !.tl[list].head = thr]
        ELSE [S EXCEPT !.list_next[thr] = NULL, !.tl[list] = [head |-> thr, tail |-> thr]]

\* void tlinsert(struct thread_list * list, struct thread * thr)
tlinsert(S, list, thr) ==
    LET S1 == [S EXCEPT !.list_next[thr] = NULL]
        L == S1.tl[list]
    IN  IF L.tail # NULL
        THEN IF L.head = NULL THEN Panic(S1, "assert")
             ELSE [S1 EXCEPT !.list_next[L.tail] = thr, !.tl[list].tail = thr]
        ELSE IF L.head # NULL THEN Panic(S1, "assert")
             ELSE [S1 EXCEPT !.tl[list] = [head |-> thr, tail |-> thr]]

\* struct thread * tlremove(struct thread_list * list): the list after the
\* removal and the thread removed (NULL from an empty list).
tlremove(S, list) ==
    LET thr == S.tl[list].head
    IN  IF thr = NULL THEN [S |-> S, thr |-> NULL]
        ELSE LET nh == S.list_next[thr]
                 S1 == [S EXCEPT !.tl[list].head = nh,
                                 !.tl[list].tail = IF nh # NULL THEN @ ELSE NULL,
                                 !.list_next[thr] = NULL]
             IN  [S |-> S1, thr |-> thr]

\* The threads linked from the head of a list, in order (at most NTHR links followed).
RECURSIVE Chain(_, _, _)
Chain(S, thr, n) ==
    IF thr = NULL \/ n = 0 THEN <<>>
    ELSE <<thr>> \o Chain(S, S.list_next[thr], n - 1)
ListSeq(S, list) == Chain(S, S.tl[list].head, NTHR)
OnList(S, list, t) == \E i \in 1 .. Len(ListSeq(S, list)) : ListSeq(S, list)[i] = t

\* void condition_broadcast(struct condition * cond): interrupts disabled,
\* every waiter removed, set ready and put on the ready list, interrupts restored.
RECURSIVE Drain(_, _, _)
Drain(S, list, n) ==
    LET r == tlremove(S, list)
    IN  IF r.thr = NULL \/ n = 0 THEN S
        ELSE Drain(tlinsert([r.S EXCEPT !.tstate[r.thr] = THREAD_READY], READY_LIST, r.thr),
                   list, n - 1)
condition_broadcast(S, cond) == Drain(S, cond, NTHR + 1)

\* void running_thread_suspend(void), up to its call of _thread_swtch: the
\* frame pushed holds the saved pie and the thread to switch to.  A running
\* thread whose state is none of waiting, self, exited takes no branch and
\* returns at once.
SwitchTo(S, t, pie, r) ==
    IF r.thr = NULL THEN Panic(r.S, "null_thread")
    ELSE Push([r.S EXCEPT !.tstate[r.thr] = THREAD_SELF, !.ie = TRUE],
              t, Frame("swtch", pie, r.thr))
\* running_thread_suspend whose yield branch does not put the running thread
\* back on the ready list.
running_thread_suspend_drops_self(S) ==
    LET t == S.TP
        pie == S.ie
        st == S.tstate[t]
    IN  IF st = THREAD_WAITING \/ st = THREAD_EXITED
        THEN SwitchTo(S, t, pie, tlremove(S, READY_LIST))
        ELSE IF st = THREAD_SELF
        THEN SwitchTo(S, t, pie, tlremove([S EXCEPT !.tstate[t] = THREAD_READY], READY_LIST))
        ELSE [S EXCEPT !.ie = pie]
running_thread_suspend(S) ==
    LET t == S.TP
        pie == S.ie
        st == S.tstate[t]
    IN  IF st = THREAD_WAITING \/ st = THREAD_EXITED
        THEN SwitchTo(S, t, pie, tlremove(S, READY_LIST))
        ELSE IF st = THREAD_SELF
        THEN SwitchTo(S, t, pie,
                      tlremove(tlinsert([S EXCEPT !.tstate[t] = THREAD_READY],
                                        READY_LIST, t), READY_LIST))
        ELSE [S EXCEPT !.ie = pie]

\* void condition_wait(struct condition * cond), up to its call of
\* running_thread_suspend: the state is set before interrupts are disabled,
\* and interrupts are restored after the insertion.
condition_wait_enqueue(S, cond) ==
    LET t == S.TP
    IN  IF S.tstate[t] # THREAD_SELF THEN Panic(S, "assert")
        ELSE tlinsert([S EXCEPT !.tstate[t] = THREAD_WAITING, !.list_next[t] = NULL],
                      cond, t)

\* The value a call returned to the thread that made it (err names a negative
\* error code, "" for none).
Ret(S, op, arg, val) ==
    [S EXCEPT !.ret = [op |-> op, t |-> S.TP, arg |-> arg, val |-> val, err |-> ""]]
RetErr(S, op, arg, err) ==
    [S EXCEPT !.ret = [op |-> op, t |-> S.TP, arg |-> arg, val |-> NULL, err |-> err]]

\* A lock whose owner field still holds the address of a struct thread that
\* has been freed.
DANGLING == 0 - 2
EmptyList == [head |-> NULL, tail |-> NULL]
Linked(S, t) ==
    \/ \E u \in Tids : S.list_next[u] = t
    \/ \E l \in ListIds : S.tl[l].head = t \/ S.tl[l].tail = t

\* thread_reclaim without its line thrtab[tid] = NULL.
thread_reclaim_keeps_slot(S, tid) ==
    IF ~(0 < tid /\ tid < NTHR /\ S.thrtab[tid]) THEN Panic(S, "assert")
    ELSE IF S.tstate[tid] # THREAD_EXITED THEN Panic(S, "assert")
    ELSE [S EXCEPT
             !.parent = [c \in Tids |->
                           IF c >= 1 /\ S.thrtab[c] /\ S.parent[c] = tid
                           THEN S.parent[tid] ELSE S.parent[c]],
             !.reaped = @ \cup {tid}]

\* void thread_reclaim(int tid).  Freeing a struct thread that a list still
\* links leaves the list pointing into freed memory.
thread_reclaim(S, tid) ==
    IF ~(0 < tid /\ tid < NTHR /\ S.thrtab[tid]) THEN Panic(S, "assert")
    ELSE IF S.tstate[tid] # THREAD_EXITED THEN Panic(S, "assert")
    ELSE LET S1 == [S EXCEPT
                 !.parent = [c \in Tids |->
                               IF c >= 1 /\ S.thrtab[c] /\ S.parent[c] = tid
                               THEN S.parent[tid] ELSE S.parent[c]],
                 !.thrtab[tid] = FALSE]
             S2 == [S1 EXCEPT
                 !.parent[tid] = NULL,
                 !.tstate[tid] = THREAD_UNINITIALIZED,
                 !.lock_list[tid] = NULL,
                 !.stk[tid] = <<TopFrame>>,
                 !.lock = [l \in Locks |->
                             IF S.lock[l].owner = tid
                             THEN [S.lock[l] EXCEPT !.owner = DANGLING]
                             ELSE S.lock[l]],
                 !.reaped = @ \cup {tid}]
         IN  IF Linked(S, tid) THEN Panic(S2, "use_after_free")
             ELSE [S2 EXCEPT !.list_next[tid] = NULL]

\* struct thread * create_thread(const char * name): the lowest free slot
\* from 1, NULL when there is none.  kcalloc may hand out the memory of a
\* freed struct thread again (reuse), so that a stale owner pointer of a lock
\* then equals the new thread.
FreeSlots(S) == {i \in 1 .. (NTHR - 1) : ~S.thrtab[i]}
create_thread(S, reuse) ==
    IF FreeSlots(S) = {} THEN [S |-> S, thr |-> NULL]
    ELSE LET tid == CHOOSE i \in FreeSlots(S) : \A j \in FreeSlots(S) : i <= j
             S1 == [S EXCEPT
                 !.thrtab[tid] = TRUE,
                 !.tstate[tid] = THREAD_UNINITIALIZED,
                 !.parent[tid] = S.TP,
                 !.list_next[tid] = NULL,
                 !.lock_list[tid] = NULL,
                 !.tl[ChildExit(tid)] = EmptyList,
                 !.stk[tid] = <<TopFrame>>,
                 !.lock = [l \in Locks |->
                             IF reuse /\ S.lock[l].owner = DANGLING
                             THEN [S.lock[l] EXCEPT !.owner = tid]
                             ELSE S.lock[l]]]
         IN  [S |-> S1, thr |-> tid]

\* int thread_spawn(const char * name, void (*entry)(void), ...)
thread_spawn(S, reuse) ==
    LET r == create_thread(S, reuse)
    IN  IF r.thr = NULL THEN RetErr(S, "spawn", NULL, "-EMTHR")
        ELSE Ret(tlinsert([r.S EXCEPT !.tstate[r.thr] = THREAD_READY], READY_LIST, r.thr),
                 "spawn", NULL, r.thr)

\* lock_release without its test of the count: the first release frees the
\* lock.
lock_release_ignores_count(S, lock) ==
    LET t == S.TP
    IN  IF S.lock[lock].owner # t THEN [S EXCEPT !.sys = "assert"]
        ELSE [S EXCEPT !.lock[lock].owner = NULL, !.lock[lock].count = 0,
                       !.lock_list[t] = IF @ = lock THEN S.lock[lock].next ELSE @]

\* void lock_release(struct lock * lock): one level of a recursive hold is
\* dropped; the last level frees the lock, unlinks it from the owner's
\* lock_list and wakes the waiters.
RECURSIVE Unlink(_, _, _, _, _, _)
Unlink(S, t, lock, prev, curr, n) ==
    IF curr = NULL \/ n = 0 THEN S
    ELSE IF curr = lock
    THEN IF prev = NULL THEN [S EXCEPT !.lock_list[t] = S.lock[curr].next]
         ELSE [S EXCEPT !.lock[prev].next = S.lock[curr].next]
    ELSE Unlink(S, t, lock, curr, S.lock[curr].next, n - 1)
lock_release(S, lock) ==
    LET t == S.TP
    IN  IF S.lock[lock].owner # t THEN Panic(S, "assert")
        ELSE IF S.lock[lock].count > 1
        THEN [S EXCEPT !.lock[lock].count = @ - 1]
        ELSE LET S1 == [S EXCEPT !.lock[lock].owner = NULL, !.lock[lock].count = 0]
                 S2 == Unlink(S1, t, lock, NULL, S1.lock_list[t], NLOCK + 1)
             IN  condition_broadcast([S2 EXCEPT !.lock[lock].next = NULL], LockCond(lock))

\* condition_wait called with interrupts disabled: nothing can run between
\* the insertion and the suspension.
WaitOn(S, cond) ==
    LET S1 == condition_wait_enqueue(S, cond)
    IN  IF S1.sys # "run" THEN S1 ELSE running_thread_suspend(S1)

\* int thread_join(int tid), tid == 0, after condition_wait has returned:
\* the first exited child is reclaimed and its id returned.
ExitedChildren(S, t) ==
    {i \in Tids : S.thrtab[i] /\ S.parent[i] = t /\ S.tstate[i] = THREAD_EXITED}
join_any_scan(S) ==
    LET t == S.TP
        fr == Top(S, t)
        E == ExitedChildren(S, t)
    IN  IF E # {}
        THEN LET i == CHOOSE i \in E : \A j \in E : i <= j
             IN  Ret(Pop([thread_reclaim(S, i) EXCEPT !.ie = fr.pie], t), "join", 0, i)
        ELSE Ret(Pop([S EXCEPT !.ie = fr.pie], t), "join", 0, 0)

\* int thread_join(int tid), tid > 0: the loop on the child's state, the
\* reclaim and the return (which does not restore the interrupt state).
join_child_loop(S) ==
    LET t == S.TP
        tid == Top(S, t).a
    IN  IF S.tstate[tid] # THREAD_EXITED THEN WaitOn(S, ChildExit(t))
        ELSE Ret(Pop(thread_reclaim(S, tid), t), "join", tid, tid)

\* The has_children loop of thread_join(0) reads thrtab[i]->parent without
\* testing thrtab[i]: on an empty slot the load from address 0 either faults
\* or yields a word that is or is not TP.
RECURSIVE has_children(_, _, _)
has_children(S, t, i) ==
    IF i = NTHR THEN {"no"}
    ELSE IF ~S.thrtab[i] THEN {"fault", "yes"} \cup has_children(S, t, i + 1)
    ELSE IF S.parent[i] = t THEN {"yes"}
    ELSE has_children(S, t, i + 1)
JoinOutcomes(S, tid) ==
    IF tid = 0 THEN has_children(S, S.TP, 0)
    ELSE IF ~S.thrtab[tid] THEN {"fault", "no"}
    ELSE IF S.parent[tid] = S.TP THEN {"yes"} ELSE {"no"}

\* int thread_join(int tid), from its entry to its first suspension or return.
thread_join(S, tid, o) ==
    LET t == S.TP
        S0 == [S EXCEPT !.ie = FALSE]
    IN  IF o = "fault" THEN Panic(S0, "null_deref")
        ELSE IF o = "no" THEN RetErr(S0, "join", tid, "-EINVAL")
        ELSE IF tid = 0 THEN WaitOn(Push(S0, t, Frame("join0", S.ie, 0)), ChildExit(t))
        ELSE join_child_loop(Push(S0, t, Frame("joinN", S.ie, tid)))

\* void lock_acquire(struct lock * lock): the loop waiting for the lock to be free,
\* then the acquisition.
acquire_loop(S) ==
    LET t == S.TP
        fr == Top(S, t)
        l == fr.a
    IN  IF S.lock[l].owner # NULL THEN WaitOn(S, LockCond(l))
        ELSE Pop([S EXCEPT !.lock[l] = [owner |-> t, count |-> 1, next |-> S.lock_list[t]],
                           !.lock_list[t] = l,
                           !.ie = fr.pie], t)
lock_acquire(S, l) ==
    LET t == S.TP
    IN  IF S.lock[l].owner = t THEN [S EXCEPT !.lock[l].count = @ + 1]
        ELSE acquire_loop(Push([S EXCEPT !.ie = FALSE], t, Frame("acq", S.ie, l)))

\* What the running thread does once running_thread_suspend has returned to
\* the function that called it.
Continue(S) ==
    LET t == S.TP
        fr == Top(S, t)
    IN  IF S.sys # "run" THEN S
        ELSE IF fr.pc = "wait"
        THEN Ret(Pop([S EXCEPT !.ie = IF fr.a = 1 THEN fr.pie ELSE @], t), "wait", NULL, 0)
        ELSE IF fr.pc = "join0" THEN join_any_scan(S)
        ELSE IF fr.pc = "joinN" THEN join_child_loop(S)
        ELSE IF fr.pc = "acq" THEN acquire_loop(S)
        ELSE IF fr.pc = "exit" THEN Panic(S, "halt_failure")
        ELSE S
AfterSuspend(S) ==
    IF S.sys # "run" \/ Top(S, S.TP).pc = "swtch" THEN S ELSE Continue(S)

\* _thread_swtch(next_thread): the running thread's context is saved and
\* next_thread continues, either at its start or after its own call of
\* _thread_swtch, where it restores the pie it saved.
thread_swtch(S) ==
    LET t == S.TP
        fr == Top(S, t)
        next == fr.a
        S1 == [SetTop(S, t, Frame("resume", fr.pie, NULL)) EXCEPT !.TP = next]
    IN  IF Top(S1, next).pc = "resume"
        THEN Continue([Pop(S1, next) EXCEPT !.ie = Top(S1, next).pie])
        ELSE S1

\* The thread manager after thrmgr_init: main_thread running, idle_thread ready
\* and alone on the ready list, both in thrtab, interrupts enabled.
K0 ==
    [thrtab    |-> [t \in Tids |-> t \in {MAIN_TID, IDLE_TID}],
     tstate    |-> [t \in Tids |-> IF t = MAIN_TID THEN THREAD_SELF
                                   ELSE IF t = IDLE_TID THEN THREAD_READY
                                   ELSE THREAD_UNINITIALIZED],
     parent    |-> [t \in Tids |-> IF t = IDLE_TID THEN MAIN_TID ELSE NULL],
     list_next |-> [t \in Tids |-> NULL],
     lock_list |-> [t \in Tids |-> NULL],
     tl        |-> [l \in ListIds |-> IF l = READY_LIST
                                      THEN [head |-> IDLE_TID, tail |-> IDLE_TID]
                                      ELSE EmptyList],
     lock      |-> [l \in Locks |-> [owner |-> NULL, count |-> 0, next |-> NULL]],
     TP        |-> MAIN_TID,
     ie        |-> TRUE,
     stk       |-> [t \in Tids |-> <<TopFrame>>],
     sys       |-> "run",
     ret       |-> [op |-> "none", t |-> NULL, arg |-> NULL, val |-> NULL, err |-> ""],
     reaped    |-> {},
     ops       |-> 0]

\* The running thread is in no kernel call and may make one.
AtTop == K.sys = "run" /\ Top(K, K.TP).pc = "top"
MayCall == AtTop /\ K.TP # IDLE_TID /\ K.ops < MaxOps
Called(S) == [S EXCEPT !.ops = K.ops + 1]

DoSpawn ==
    /\ MayCall
    /\ \E reuse \in BOOLEAN :
         /\ reuse => \E l \in Locks : K.lock[l].owner = DANGLING
         /\ K' = Called(thread_spawn(K, reuse))
    /\ UNCHANGED <<P, M, F>>

\* void thread_yield(void)
DoYield ==
    /\ MayCall
    /\ K' = Called(AfterSuspend(running_thread_suspend(K)))
    /\ UNCHANGED <<P, M, F>>

\* void thread_exit(void), entry: the main thread halts the machine, any
\* other thread starts on its lock_list.
DoExit ==
    /\ MayCall
    /\ K' = Called(IF K.TP = MAIN_TID THEN Panic(K, "halt_success")
                   ELSE Push(K, K.TP, Frame("exit", K.ie, K.lock_list[K.TP])))
    /\ UNCHANGED <<P, M, F>>

\* void thread_exit(void), one turn of the loop: next is read, then the lock
\* is passed to lock_release.
ExitRelease ==
    /\ K.sys = "run"
    /\ Top(K, K.TP).pc = "exit"
    /\ Top(K, K.TP).a # NULL
    /\ LET lock == Top(K, K.TP).a
           next == K.lock[lock].next
           S1 == lock_release(K, lock)
       IN  K' = IF S1.sys # "run" THEN S1
                ELSE SetTop(S1, K.TP, Frame("exit", Top(K, K.TP).pie, next))
    /\ UNCHANGED <<P, M, F>>

\* void thread_exit(void), after the loop: the state is set, the parent's
\* child_exit is broadcast, the thread suspends for good.
ExitFinish ==
    /\ K.sys = "run"
    /\ Top(K, K.TP).pc = "exit"
    /\ Top(K, K.TP).a = NULL
    /\ LET t == K.TP
           S1 == condition_broadcast([K EXCEPT !.tstate[t] = THREAD_EXITED],
                                     ChildExit(K.parent[t]))
       IN  K' = IF S1.sys # "run" THEN S1 ELSE AfterSuspend(running_thread_suspend(S1))
    /\ UNCHANGED <<P, M, F>>

DoJoin ==
    /\ MayCall
    /\ \E tid \in Tids : \E o \in JoinOutcomes(K, tid) :
         K' = Called(thread_join(K, tid, o))
    /\ UNCHANGED <<P, M, F>>

\* Recursion depth of a lock in the model.
MaxCount == 2
DoAcquire ==
    /\ MayCall
    /\ \E l \in Locks :
         /\ K.lock[l].owner = K.TP => K.lock[l].count < MaxCount
         /\ K' = Called(lock_acquire(K, l))
    /\ UNCHANGED <<P, M, F>>

DoRelease ==
    /\ MayCall
    /\ \E l \in Locks :
         /\ K.lock[l].owner = K.TP
         /\ K' = Called(lock_release(K, l))
    /\ UNCHANGED <<P, M, F>>

\* A caller of condition_wait on a device condition with interrupts disabled
\* around the call (timer.c alarm_sleep): pie = disable_interrupts();
\* condition_wait(...); restore_interrupts(pie).
DoWaitMasked ==
    /\ MayCall
    /\ K' = Called(WaitOn(Push([K EXCEPT !.ie = FALSE], K.TP, Frame("wait", K.ie, 1)),
                          DEV_COND))
    /\ UNCHANGED <<P, M, F>>

\* A caller of condition_wait with interrupts as they are (vioblk.c), up to
\* the return of restore_interrupts inside condition_wait.
DoWait ==
    /\ MayCall
    /\ K' = Called(Push(condition_wait_enqueue(K, DEV_COND), K.TP, Frame("wait", K.ie, 0)))
    /\ UNCHANGED <<P, M, F>>

\* condition_wait, its last line: running_thread_suspend().
WaitSuspend ==
    /\ K.sys = "run"
    /\ Top(K, K.TP).pc = "wait"
    /\ K' = AfterSuspend(running_thread_suspend(K))
    /\ UNCHANGED <<P, M, F>>

Swtch ==
    /\ K.sys = "run"
    /\ Top(K, K.TP).pc = "swtch"
    /\ K' = thread_swtch(K)
    /\ UNCHANGED <<P, M, F>>

\* A device interrupt, taken whenever interrupts are enabled: its handler
\* broadcasts the device's condition.
ISR ==
    /\ K.sys = "run"
    /\ K.ie
    /\ K.tl[DEV_COND].head # NULL
    /\ K' = condition_broadcast(K, DEV_COND)
    /\ UNCHANGED <<P, M, F>>

\* void idle_thread_func(void): yield while the ready list is not empty,
\* else wfi and enable_interrupts().
Idle ==
    /\ AtTop
    /\ K.TP = IDLE_TID
    /\ IF K.tl[READY_LIST].head # NULL
       THEN K' = AfterSuspend(running_thread_suspend(K))
       ELSE ~K.ie /\ K' = [K EXCEPT !.ie = TRUE]
    /\ UNCHANGED <<P, M, F>>

(***************************************************************************)
(* SYSTEM CALLS AND FORK  (syscall.c, process.c)                           *)
(***************************************************************************)
\* Size of the process table in the model (the code is built with NPROC 16).
NPROC == 3
\* Number of instructions of the user program.
NInstr == 4
NEXT_RISCV_INSTRUCTION == 4
PCs == {NEXT_RISCV_INSTRUCTION * i : i \in 0 .. (NInstr - 1)}
\* Negative error codes (error.h): only their sign and their being distinct matter.
ErrCode(e) == IF e = "ENOMEM" THEN 0 - 1 ELSE IF e = "ECHILD" THEN 0 - 2
              ELSE IF e = "EMTHR" THEN 0 - 3 ELSE IF e = "EBADFD" THEN 0 - 5
              ELSE IF e = "EMFILE" THEN 0 - 6 ELSE 0 - 4

\* struct trap_frame, the registers the model follows.
TrapFrame(sepc, a0, a7) == [sepc |-> sepc, a0 |-> a0, a7 |-> a7]
NoProc == [st |-> "free", regs |-> TrapFrame(0, 0, "print"), tfr |-> TrapFrame(0, 0, "print"),
           idx |-> NULL, last |-> [kind |-> "none", epc |-> 0, child |-> NULL]]
NoLast == [kind |-> "none", epc |-> 0, child |-> NULL]

\* The main process in user mode at the start of a program whose instructions
\* are ecalls or register operations.
PStart(text) ==
    [text |-> text,
     sys  |-> "run",
     proc |-> [t \in Tids |-> IF t = MAIN_TID
                              THEN [NoProc EXCEPT !.st = "user", !.idx = 0]
                              ELSE NoProc]]
P0 == PStart([pc \in PCs |-> "op"])

\* A user instruction other than ecall: it may load a0 and a7.
UserOp(p) ==
    /\ P.sys = "run"
    /\ P.proc[p].st = "user"
    /\ P.proc[p].regs.sepc \in PCs
    /\ P.text[P.proc[p].regs.sepc] = "op"
    /\ \E a0 \in {0, 1} : \E a7 \in {"fork", "exit", "print"} :
         P' = [P EXCEPT !.proc[p].regs =
                            TrapFrame(@.sepc + NEXT_RISCV_INSTRUCTION, a0, a7),
                        !.proc[p].last = NoLast]
    /\ UNCHANGED <<K, M, F>>

\* ecall: the trap entry saves the user registers in the trap frame, sepc
\* being the address of the ecall.
Ecall(p) ==
    /\ P.sys = "run"
    /\ P.proc[p].st = "user"
    /\ P.proc[p].regs.sepc \in PCs
    /\ P.text[P.proc[p].regs.sepc] = "ecall"
    /\ P' = [P EXCEPT !.proc[p].tfr = P.proc[p].regs,
                      !.proc[p].st = "trap",
                      !.proc[p].last = NoLast]
    /\ UNCHANGED <<K, M, F>>

\* void handle_syscall(struct trap_frame * tfr), after syscall(tfr) has
\* returned result: a0 is set, sepc advanced, and the frame restored to user mode.
syscall_return(proc, result) ==
    LET tfr == [proc.tfr EXCEPT !.a0 = result, !.sepc = @ + NEXT_RISCV_INSTRUCTION]
    IN  [proc EXCEPT !.tfr = tfr, !.regs = tfr, !.st = "user"]

FreeProcIdx == {i \in 0 .. (NPROC - 1) : \A t \in Tids : P.proc[t].idx # i}
FreeTids == {t \in 1 .. (NTHR - 1) : t # IDLE_TID /\ P.proc[t].st = "free"}

\* int process_fork(const struct trap_frame * tfr), up to condition_wait(&done):
\* the allocations may fail (o); the child's frame is a copy of tfr with a0 = 0.
\* On failure the error goes back through handle_syscall at once.
ForkCall(p) ==
    /\ P.sys = "run"
    /\ P.proc[p].st = "trap"
    /\ P.proc[p].tfr.a7 = "fork"
    /\ \E o \in {"nomem_proc", "nomem_clone", "nomem_tfr", "ok"} :
         IF o \in {"nomem_proc", "nomem_clone"}
         THEN P' = [P EXCEPT !.proc[p] = syscall_return(@, ErrCode("ENOMEM"))]
         ELSE IF FreeProcIdx = {}
         THEN P' = [P EXCEPT !.proc[p] = syscall_return(@, ErrCode("ECHILD"))]
         ELSE IF o = "nomem_tfr"
         THEN P' = [P EXCEPT !.proc[p] = syscall_return(@, ErrCode("ENOMEM"))]
         ELSE IF FreeTids = {}
         THEN P' = [P EXCEPT !.proc[p] = syscall_return(@, ErrCode("EMTHR"))]
         ELSE LET tid == CHOOSE t \in FreeTids : \A u \in FreeTids : t <= u
                  idx == CHOOSE i \in FreeProcIdx : \A j \in FreeProcIdx : i <= j
                  child_tfr == [P.proc[p].tfr EXCEPT !.a0 = 0]
              IN  P' = [P EXCEPT
                         !.proc[tid] = [st |-> "start", regs |-> TrapFrame(0, 0, "print"),
                                        tfr |-> child_tfr, idx |-> idx,
                                        last |-> [kind |-> "none", epc |-> P.proc[p].tfr.sepc,
                                                  child |-> p]],
                         !.proc[p].st = "forkwait",
                         !.proc[p].last = [kind |-> "none", epc |-> P.proc[p].tfr.sepc,
                                           child |-> tid]]
    /\ UNCHANGED <<K, M, F>>

\* void fork_func(struct condition * done, struct trap_frame * tfr): the
\* child wakes the parent and enters user mode from its copy of the frame.
ForkFunc(c) ==
    /\ P.sys = "run"
    /\ P.proc[c].st = "start"
    /\ LET par == P.proc[c].last.child
       IN  P' = [P EXCEPT !.proc[c].st = "user",
                          !.proc[c].regs = P.proc[c].tfr,
                          !.proc[c].last.kind = "fork_child",
                          !.proc[par].st = "forkret"]
    /\ UNCHANGED <<K, M, F>>

\* process_fork returns tid to sysfork and handle_syscall finishes.
ForkReturn(p) ==
    /\ P.sys = "run"
    /\ P.proc[p].st = "forkret"
    /\ P' = [P EXCEPT !.proc[p] =
                 [syscall_return(@, P.proc[p].last.child) EXCEPT !.last.kind = "fork_parent"]]
    /\ UNCHANGED <<K, M, F>>

\* sysexit -> process_exit: the main process may not exit; any other leaves
\* proctab and its thread exits (its thread slot stays taken until joined).
SysExit(p) ==
    /\ P.sys = "run"
    /\ P.proc[p].st = "trap"
    /\ P.proc[p].tfr.a7 = "exit"
    /\ P' = IF p = MAIN_TID THEN [P EXCEPT !.sys = "panic"]
            ELSE [P EXCEPT !.proc[p].st = "exited", !.proc[p].idx = NULL]
    /\ UNCHANGED <<K, M, F>>

\* sysprint: returns 0, or an error for a bad string pointer.
SysPrint(p) ==
    /\ P.sys = "run"
    /\ P.proc[p].st = "trap"
    /\ P.proc[p].tfr.a7 = "print"
    /\ \E r \in {0, ErrCode("EINVAL")} :
         P' = [P EXCEPT !.proc[p] = syscall_return(@, r)]
    /\ UNCHANGED <<K, M, F>>

(***************************************************************************)
(* MEMORY  (memory.c)                                                      *)
(***************************************************************************)
\* Entries per page table in the model (the code has 512).
PTE_CNT == 3
\* Pages of the free page pool.
NPages == 7
\* Memory operations in one run.
MaxMemOps == 3
\* The boot tables are static; the pool pages are 0 .. NPages-1.
main_pt2 == NPages
main_pt1_0x80000 == NPages + 1

\* A virtual page number is VPN2 * PTE_CNT^2 + VPN1 * PTE_CNT + VPN0.
VPN2(v) == (v \div (PTE_CNT * PTE_CNT)) % PTE_CNT
VPN1(v) == (v \div PTE_CNT) % PTE_CNT
VPN0(v) == v % PTE_CNT
\* The user region is the last entry of the root table.
UMEM_START_VMA == (PTE_CNT - 1) * PTE_CNT * PTE_CNT
UMEM_END_VMA == PTE_CNT * PTE_CNT * PTE_CNT
UserVAs == UMEM_START_VMA .. (UMEM_END_VMA - 1)

null_pte == [flags |-> {}, ppn |-> 0]
leaf_pte(pp, rwxug_flags) == [flags |-> rwxug_flags \cup {"A", "D", "V"}, ppn |-> pp]
ptab_pte(pt, g_flag) == [flags |-> g_flag \cup {"V"}, ppn |-> pt]
PTE_VALID(pte) == "V" \in pte.flags
PTE_LEAF(pte) == pte.flags \cap {"R", "W", "X"} # {}
ZeroPage == [pte |-> [i \in 0 .. (PTE_CNT - 1) |-> null_pte], d |-> 0]

\* memory_init: the root table maps the MMIO region with a global gigapage,
\* RAM through the global table main_pt1_0x80000, and nothing for the user;
\* all pool pages form one free chunk.
M0 ==
    [mem |-> [pg \in 0 .. (NPages + 1) |->
                IF pg = main_pt2
                THEN [ZeroPage EXCEPT !.pte =
                        [i \in 0 .. (PTE_CNT - 1) |->
                           IF i = 0 THEN leaf_pte(0, {"R", "W", "G"})
                           ELSE IF i < PTE_CNT - 1 THEN ptab_pte(main_pt1_0x80000, {"G"})
                           ELSE null_pte]]
                ELSE IF pg = main_pt1_0x80000
                THEN [ZeroPage EXCEPT !.pte =
                        [i \in 0 .. (PTE_CNT - 1) |-> leaf_pte(pg, {"R", "W", "G"})]]
                ELSE ZeroPage],
     chunks |-> <<[base |-> 0, pagecnt |-> NPages]>>,
     satp   |-> main_pt2,
     spaces |-> {main_pt2},
     sys    |-> "run",
     last   |-> [op |-> "init", root |-> main_pt2],
     ops    |-> 0]

\* void * alloc_phys_pages(unsigned int cnt): first fit in free_chunk_list,
\* panic when no chunk is large enough.
alloc_phys_pages(S, cnt) ==
    LET fit == {i \in 1 .. Len(S.chunks) : S.chunks[i].pagecnt >= cnt}
    IN  IF fit = {} THEN [S |-> [S EXCEPT !.sys = "panic"], pp |-> NULL]
        ELSE LET i == CHOOSE i \in fit : \A j \in fit : i <= j
                 c == S.chunks[i]
                 rest == IF c.pagecnt = cnt THEN <<>>
                         ELSE <<[base |-> c.base + cnt, pagecnt |-> c.pagecnt - cnt]>>
             IN  [S |-> [S EXCEPT !.chunks = SubSeq(@, 1, i - 1) \o rest
                                              \o SubSeq(@, i + 1, Len(@))],
                  pp |-> c.base]

\* void free_phys_pages(void * pp, unsigned int cnt): pushed on the head of the list.
free_phys_pages(S, pp, cnt) ==
    [S EXCEPT !.chunks = <<[base |-> pp, pagecnt |-> cnt]>> \o @]

\* The page a virtual page of address space root translates to, NULL if none.
Translate(S, root, v) ==
    LET e2 == S.mem[root].pte[VPN2(v)]
        e1 == S.mem[e2.ppn].pte[VPN1(v)]
        e0 == S.mem[e1.ppn].pte[VPN0(v)]
    IN  IF ~PTE_VALID(e2) THEN NULL
        ELSE IF PTE_LEAF(e2) THEN e2.ppn
        ELSE IF ~PTE_VALID(e1) THEN NULL
        ELSE IF PTE_LEAF(e1) THEN e1.ppn
        ELSE IF ~PTE_VALID(e0) THEN NULL
        ELSE e0.ppn
LeafOf(S, root, v) ==
    S.mem[S.mem[S.mem[root].pte[VPN2(v)].ppn].pte[VPN1(v)].ppn].pte[VPN0(v)]

\* void * map_page(uintptr_t vma, void * pp, int rwxug_flags): missing level-1
\* and level-0 tables are allocated, cleared and entered with PTE_G.
map_page(S, vma, pp, rwxug_flags) ==
    LET lvl2 == S.satp
        a1 == IF PTE_VALID(S.mem[lvl2].pte[VPN2(vma)]) THEN [S |-> S, pp |-> NULL]
              ELSE alloc_phys_pages(S, 1)
        S1 == IF a1.pp = NULL THEN a1.S
              ELSE [a1.S EXCEPT !.mem[a1.pp] = ZeroPage,
                                !.mem[lvl2].pte[VPN2(vma)] = ptab_pte(a1.pp, {"G"})]
        lvl1 == S1.mem[lvl2].pte[VPN2(vma)].ppn
        a0 == IF PTE_VALID(S1.mem[lvl1].pte[VPN1(vma)]) THEN [S |-> S1, pp |-> NULL]
              ELSE alloc_phys_pages(S1, 1)
        S2 == IF a0.pp = NULL THEN a0.S
              ELSE [a0.S EXCEPT !.mem[a0.pp] = ZeroPage,
                                !.mem[lvl1].pte[VPN1(vma)] = ptab_pte(a0.pp, {"G"})]
        lvl0 == S2.mem[lvl1].pte[VPN1(vma)].ppn
    IN  IF S1.sys # "run" THEN S1
        ELSE IF S2.sys # "run" THEN S2
        ELSE [S2 EXCEPT !.mem[lvl0].pte[VPN0(vma)] = leaf_pte(pp, rwxug_flags)]

\* void * map_range(uintptr_t vma, size_t size, void * pp, int rwxug_flags)
RECURSIVE map_range(_, _, _, _, _)
map_range(S, vma, cnt, pp, rwxug_flags) ==
    IF cnt = 0 \/ S.sys # "run" THEN S
    ELSE map_range(map_page(S, vma, pp, rwxug_flags), vma + 1, cnt - 1, pp + 1, rwxug_flags)

\* void * alloc_and_map_range(uintptr_t vma, size_t size, int rwxug_flags)
alloc_and_map_range(S, vma, cnt, rwxug_flags) ==
    LET a == alloc_phys_pages(S, cnt)
        S1 == [a.S EXCEPT !.mem = [pg \in DOMAIN @ |->
                                     IF a.pp <= pg /\ pg < a.pp + cnt THEN ZeroPage ELSE @[pg]]]
    IN  IF a.pp = NULL THEN a.S ELSE map_range(S1, vma, cnt, a.pp, rwxug_flags)

\* void reset_active_mspace(void), the three nested loops: a table is walked
\* from entry i; invalid and global entries are skipped; a level-0 leaf has
\* its page freed and is cleared; a level-1 or level-2 entry has its table
\* walked, is cleared, and the table page freed.
RECURSIVE reset_walk(_, _, _, _)
reset_walk(S, tab, lvl, i) ==
    IF i = PTE_CNT THEN S
    ELSE LET e == S.mem[tab].pte[i]
         IN  IF ~PTE_VALID(e) \/ "G" \in e.flags THEN reset_walk(S, tab, lvl, i + 1)
             ELSE IF lvl = 0
             THEN reset_walk([free_phys_pages(S, e.ppn, 1) EXCEPT !.mem[tab].pte[i] = null_pte],
                             tab, lvl, i + 1)
             ELSE LET S1 == reset_walk(S, e.ppn, lvl - 1, 0)
                  IN  reset_walk(free_phys_pages([S1 EXCEPT !.mem[tab].pte[i] = null_pte],
                                                 e.ppn, 1),
                                 tab, lvl, i + 1)
ROOT_LEVEL == 2
reset_active_mspace(S) == reset_walk(S, S.satp, ROOT_LEVEL, 0)

\* static struct pte *clone_ptab(struct pte *old_ptab, int lvl): a new table
\* is allocated; global entries are copied as they are; a table entry is
\* cloned recursively; a level-0 leaf gets a new page with the same bytes.
RECURSIVE clone_ptab(_, _, _)
RECURSIVE clone_entries(_, _, _, _, _)
clone_entries(S, old, new, lvl, i) ==
    IF i = PTE_CNT \/ S.sys # "run" THEN S
    ELSE LET p == S.mem[old].pte[i]
         IN  IF ~PTE_VALID(p) THEN clone_entries(S, old, new, lvl, i + 1)
             ELSE IF "G" \in p.flags \/ (PTE_LEAF(p) /\ lvl > 0)
             THEN clone_entries([S EXCEPT !.mem[new].pte[i] = p], old, new, lvl, i + 1)
             ELSE IF ~PTE_LEAF(p)
             THEN LET c == clone_ptab(S, p.ppn, lvl - 1)
                  IN  clone_entries(
                          [c.S EXCEPT !.mem[new].pte[i] = ptab_pte(c.pt, p.flags \cap {"G"})],
                          old, new, lvl, i + 1)
             ELSE LET a == alloc_phys_pages(S, 1)
                  IN  IF a.pp = NULL THEN a.S
                      ELSE clone_entries(
                               [a.S EXCEPT !.mem[a.pp] = S.mem[p.ppn],
                                           !.mem[new].pte[i] =
                                               leaf_pte(a.pp, p.flags \cap {"R", "W", "X", "U"})],
                               old, new, lvl, i + 1)
clone_ptab(S, old, lvl) ==
    LET a == alloc_phys_pages(S, 1)
    IN  IF a.pp = NULL THEN [S |-> a.S, pt |-> NULL]
        ELSE [S |-> clone_entries([a.S EXCEPT !.mem[a.pp] = ZeroPage], old, a.pp, lvl, 0),
              pt |-> a.pp]

\* The running kernel may make another memory call.
MemCall(S, op) ==
    IF S.sys # "run" THEN [S EXCEPT !.ops = M.ops + 1]
    ELSE [S EXCEPT !.ops = M.ops + 1, !.last = [op |-> op, root |-> S.satp]]
MemMay == M.sys = "run" /\ M.ops < MaxMemOps
MapVAs == {UMEM_START_VMA, UMEM_START_VMA + 1, UMEM_START_VMA + PTE_CNT}

MemAllocMap ==
    /\ MemMay
    /\ \E vma \in MapVAs : \E cnt \in 1 .. 2 : \E fl \in {{"R", "U"}, {"R", "W", "U"}} :
         /\ vma + cnt <= UMEM_END_VMA
         /\ M' = MemCall(alloc_and_map_range(M, vma, cnt, fl), "map")
    /\ UNCHANGED <<K, P, F>>

\* int handle_umode_page_fault(struct trap_frame * tfr, uintptr_t vma), for a
\* user access to an unmapped page of the user region.
MemFault ==
    /\ MemMay
    /\ \E vma \in MapVAs : \E cause \in {"load", "store", "instr"} :
         /\ Translate(M, M.satp, vma) = NULL
         /\ LET fl == {"R", "U"} \cup (IF cause = "store" THEN {"W"} ELSE {})
                                 \cup (IF cause = "instr" THEN {"X"} ELSE {})
                a == alloc_phys_pages(M, 1)
            IN  M' = MemCall(IF a.pp = NULL THEN a.S
                             ELSE map_page([a.S EXCEPT !.mem[a.pp] = ZeroPage], vma, a.pp, fl),
                             "fault")
    /\ UNCHANGED <<K, P, F>>

\* A store of user code to a mapped, writable user page.
MemStore ==
    /\ M.sys = "run"
    /\ \E vma \in UserVAs : \E val \in {0, 1} :
         /\ Translate(M, M.satp, vma) # NULL
         /\ {"W", "U"} \subseteq LeafOf(M, M.satp, vma).flags
         /\ M.mem[Translate(M, M.satp, vma)].d # val
         /\ M' = [M EXCEPT !.mem[Translate(M, M.satp, vma)].d = val,
                           !.last = [op |-> "store", root |-> M.satp]]
    /\ UNCHANGED <<K, P, F>>

\* void unmap_and_free_range(void * vp, size_t size) on one mapped page.
MemUnmap ==
    /\ MemMay
    /\ \E vma \in MapVAs :
         /\ Translate(M, M.satp, vma) # NULL
         /\ LET lvl1 == M.mem[M.satp].pte[VPN2(vma)].ppn
                lvl0 == M.mem[lvl1].pte[VPN1(vma)].ppn
            IN  M' = MemCall([free_phys_pages(M, M.mem[lvl0].pte[VPN0(vma)].ppn, 1)
                                EXCEPT !.mem[lvl0].pte[VPN0(vma)] = null_pte], "unmap")
    /\ UNCHANGED <<K, P, F>>

MemReset ==
    /\ MemMay
    /\ M' = MemCall(reset_active_mspace(M), "reset")
    /\ UNCHANGED <<K, P, F>>

\* mtag_t clone_active_mspace(void)
MemClone ==
    /\ MemMay
    /\ LET c == clone_ptab(M, M.satp, ROOT_LEVEL)
       IN  M' = IF c.S.sys # "run" THEN MemCall(c.S, "clone")
                ELSE [MemCall(c.S, "clone") EXCEPT !.spaces = @ \cup {c.pt},
                                                   !.last.root = c.pt]
    /\ UNCHANGED <<K, P, F>>

\* mtag_t switch_mspace(mtag_t mtag)
MemSwitch ==
    /\ M.sys = "run"
    /\ \E r \in M.spaces \ {M.satp} :
         M' = [M EXCEPT !.satp = r, !.last = [op |-> "switch", root |-> r]]
    /\ UNCHANGED <<K, P, F>>

\* mtag_t discard_active_mspace(void), called by a process other than main.
MemDiscard ==
    /\ MemMay
    /\ M.satp # main_pt2
    /\ LET S1 == reset_active_mspace(M)
       IN  M' = MemCall([free_phys_pages(S1, M.satp, 1)
                           EXCEPT !.satp = main_pt2, !.spaces = @ \ {M.satp}], "discard")
    /\ UNCHANGED <<K, P, F>>

(***************************************************************************)
(* FILESYSTEM  (ktfs.c over cache.c)                                       *)
(*                                                                         *)
(* A block of the model holds KTFS_BLKSZ bytes.  An inode and a directory  *)
(* entry each take one byte of the model, so a block holds KTFS_BLKSZ      *)
(* inodes or KTFS_BLKSZ directory entries (the code: 512 / 32 of either).  *)
(* The bitmap block is the set of its set bits, an inode block a sequence  *)
(* of inodes, a data block a sequence of bytes; a directory entry is the   *)
(* byte name * DentryMod + inode, so file data written over a directory    *)
(* block reads back as directory entries, as it does in the code.          *)
(* Inodes carry the direct block numbers only: ktfs_set_end allocates      *)
(* direct blocks only and ktfs_create writes a zeroed inode, so the        *)
(* indirect fields are 0 in every file the code makes.                     *)
(***************************************************************************)
\* Bytes per block (the code: KTFS_BLKSZ 512).
KTFS_BLKSZ == 5
\* Direct block numbers per inode (the code: 3).
KTFS_NUM_DIRECT_DATA_BLOCKS == 2
\* Entries the cache holds before it evicts (the code: 64).
CACHE_CAPACITY == 2
\* block_count of the mounted image.
NBlocks == 7
\* Byte values the callers write: 1 .. MaxByte.
MaxByte == 2
\* Handles open at a time.
MaxOpen == 1
\* Threads calling into the filesystem.
NFsThr == 2
\* Filesystem calls of one run.
MaxFsOps == 6
\* Files on the populated image the filesystem is mounted on.
NPre == 3
\* Range of the inode field of a directory entry (the code: 2^16).
DentryMod == 8

KTFS_FILE_IN_USE == 1
fs_sb ==
  [block_count |-> NBlocks, bitmap_block_count |-> 1, inode_block_count |-> 1,
   root_directory_inode |-> 0]
data_base == 1 + fs_sb.bitmap_block_count + fs_sb.inode_block_count
inodes_per_block == KTFS_BLKSZ
\* The names the callers use: a file of the populated image and a new one.
Names == {1, NPre + 1}
Handles == 0 .. (MaxOpen - 1)
zero_inode ==
  [size |-> 0, flags |-> 0, block |-> [i \in 1 .. KTFS_NUM_DIRECT_DATA_BLOCKS |-> 0]]
zero_block == [i \in 1 .. KTFS_BLKSZ |-> 0]
dentry(name, inode) == name * DentryMod + inode
dentry_name(d) == d \div DentryMod
dentry_inode(d) == d % DentryMod

\* A local variable of the C code: e is computed once and Body sees its value.
Let(e, Body(_)) == CHOOSE y \in {Body(x) : x \in {e}} : TRUE
First(X) == CHOOSE i \in X : \A j \in X : i <= j

\* The same call with an eviction that unlinks the head and leaves size as
\* it was.
cache_get_block_keeps_size(S, blk, wfail, rfail) ==
  IF \E i \in DOMAIN S.cache : S.cache[i].blocknum = blk
  THEN [S |-> S, err |-> ""]
  ELSE IF S.size >= CACHE_CAPACITY /\ Head(S.cache).dirty /\ wfail
  THEN [S |-> [S EXCEPT !.cache = Tail(@)], err |-> "EIO"]
  ELSE IF rfail
  THEN [S |-> IF S.size >= CACHE_CAPACITY THEN [S EXCEPT !.cache = Tail(@)] ELSE S,
        err |-> "EIO"]
  ELSE [S |-> [S EXCEPT !.cache = Append(IF S.size >= CACHE_CAPACITY THEN Tail(@) ELSE @,
                                         [blocknum |-> blk, data |-> S.disk[blk],
                                          dirty |-> FALSE]),
                        !.size = IF S.size >= CACHE_CAPACITY THEN @ ELSE @ + 1],
        err |-> ""]
\* cache_get_block: a hit changes nothing; a miss on a full cache (size at
\* CACHE_CAPACITY) unlinks the head, decrements size and, when it is dirty,
\* writes it to the device (wfail: iowriteat
\* returns an error, and the call returns it with the victim already
\* unlinked); then the block is read from the device (rfail: the read fails)
\* and the entry is appended.
cache_get_block_dev(S, blk, wfail, rfail) ==
  IF \E i \in DOMAIN S.cache : S.cache[i].blocknum = blk
  THEN [S |-> S, err |-> ""]
  ELSE IF S.size >= CACHE_CAPACITY /\ Head(S.cache).dirty /\ wfail
  THEN [S |-> [S EXCEPT !.cache = Tail(@), !.size = @ - 1], err |-> "EIO"]
  ELSE Let(IF S.size >= CACHE_CAPACITY
           THEN [S EXCEPT !.cache = Tail(@), !.size = @ - 1,
                          !.disk = IF Head(S.cache).dirty
                                   THEN [@ EXCEPT ![Head(S.cache).blocknum] = Head(S.cache).data]
                                   ELSE @]
           ELSE S,
           LAMBDA E :
             IF rfail
             THEN [S |-> E, err |-> "EIO"]
             ELSE [S |-> [E EXCEPT !.cache = Append(@, [blocknum |-> blk,
                                                        data |-> E.disk[blk],
                                                        dirty |-> FALSE]),
                                   !.size = @ + 1],
                   err |-> ""])
\* The filesystem's calls, over a device whose writes succeed.
cache_get_block(S, blk, fail) == cache_get_block_dev(S, blk, FALSE, fail)
cache_entry(S, blk) == CHOOSE i \in DOMAIN S.cache : S.cache[i].blocknum = blk
\* The caller's memcpy into the block it got, then cache_release_block(dirty).
cache_release_block(S, blk, data) ==
  [S EXCEPT !.cache[cache_entry(S, blk)] = [blocknum |-> blk, data |-> data, dirty |-> TRUE]]
\* cache_flush: the dirty entries are written in list order and marked clean;
\* the first write that fails ends the loop with -EIO (failat: the entry from
\* which on the device fails, 0 for never).
cache_flush_dev(S, failat) ==
  Let({i \in DOMAIN S.cache : S.cache[i].dirty /\ i >= failat /\ failat > 0}, LAMBDA bad :
  Let(IF bad = {} THEN Len(S.cache) ELSE First(bad) - 1, LAMBDA n :
      [S |-> [S EXCEPT
                !.disk = [b \in DOMAIN S.disk |->
                            IF \E i \in 1 .. n : S.cache[i].blocknum = b /\ S.cache[i].dirty
                            THEN S.cache[cache_entry(S, b)].data ELSE S.disk[b]],
                !.cache = [i \in DOMAIN S.cache |->
                             IF i <= n THEN [S.cache[i] EXCEPT !.dirty = FALSE] ELSE S.cache[i]]],
       err |-> IF bad = {} THEN "" ELSE "EIO"]))
cache_flush(S) == cache_flush_dev(S, 0).S

ktfs_read_block_cached(S, blk, fail) ==
  Let(cache_get_block(S, blk, fail), LAMBDA g :
      [S |-> g.S, err |-> g.err,
       data |-> IF g.err = "" THEN g.S.cache[cache_entry(g.S, blk)].data ELSE <<>>])
\* Get the block, replace it by data, release it dirty.
cache_write_block(S, blk, data) ==
  Let(cache_get_block(S, blk, FALSE), LAMBDA g : cache_release_block(g.S, blk, data))
ktfs_read_inode(S, inum, fail) ==
  Let(ktfs_read_block_cached(S, 1 + fs_sb.bitmap_block_count + (inum \div inodes_per_block), fail),
      LAMBDA r :
        [S |-> r.S, err |-> r.err,
         ino |-> IF r.err = "" THEN r.data[(inum % inodes_per_block) + 1] ELSE zero_inode])
ktfs_write_inode(S, inum, ino) ==
  Let(ktfs_read_block_cached(S, 1 + fs_sb.bitmap_block_count + (inum \div inodes_per_block), FALSE),
      LAMBDA r :
        cache_release_block(r.S, 1 + fs_sb.bitmap_block_count + (inum \div inodes_per_block),
                            [r.data EXCEPT ![(inum % inodes_per_block) + 1] = ino]))
ktfs_read_data_block(S, blockno) ==
  ktfs_read_block_cached(S, data_base + blockno, FALSE)
bitmap_update(S, bit_idx, on) ==
  Let(ktfs_read_block_cached(S, 1 + (bit_idx \div (KTFS_BLKSZ * 8)), FALSE), LAMBDA r :
      cache_release_block(r.S, 1 + (bit_idx \div (KTFS_BLKSZ * 8)),
                          IF on THEN r.data \cup {bit_idx % (KTFS_BLKSZ * 8)}
                          ELSE r.data \ {bit_idx % (KTFS_BLKSZ * 8)}))
ktfs_bitmap_set(S, inum) == bitmap_update(S, inum, TRUE)
ktfs_bitmap_clear_bit(S, bit_idx) == bitmap_update(S, bit_idx, FALSE)
ktfs_update_root_size(S, delta) ==
  Let(ktfs_read_inode(S, fs_sb.root_directory_inode, FALSE), LAMBDA r :
      ktfs_write_inode(r.S, fs_sb.root_directory_inode, [r.ino EXCEPT !.size = @ + delta]))
ktfs_shrink_root(S, delta) ==
  Let(ktfs_read_inode(S, fs_sb.root_directory_inode, FALSE), LAMBDA r :
      ktfs_write_inode(r.S, fs_sb.root_directory_inode, [r.ino EXCEPT !.size = @ - delta]))
\* The scan gets the bitmap block for every bit it tests; the first clear bit
\* at or past data_base is set and its data-area index returned.
ktfs_alloc_data_block(S) ==
  Let(ktfs_read_block_cached(S, 1, FALSE), LAMBDA r :
  Let({idx \in data_base .. (fs_sb.block_count - 1) : idx \notin r.data}, LAMBDA free :
      IF free = {}
      THEN [S |-> r.S, err |-> "ENODATABLKS", blkno |-> 0]
      ELSE [S |-> cache_release_block(r.S, 1, r.data \cup {First(free)}), err |-> "",
            blkno |-> First(free) - data_base]))
RECURSIVE set_end_loop(_, _, _, _)
set_end_loop(S, inode, i, new_blocks) ==
  IF i >= new_blocks THEN [S |-> S, err |-> "", inode |-> inode]
  ELSE IF i >= KTFS_NUM_DIRECT_DATA_BLOCKS THEN [S |-> S, err |-> "ENODATABLKS", inode |-> inode]
  ELSE Let(ktfs_alloc_data_block(S), LAMBDA a :
           IF a.err # "" THEN [S |-> a.S, err |-> a.err, inode |-> inode]
           ELSE Let([inode EXCEPT !.block[i + 1] = a.blkno], LAMBDA next :
                    set_end_loop(a.S, next, i + 1, new_blocks)))
ktfs_set_end(S, h, new_end, fail) ==
  Let(ktfs_read_inode(S, S.files[h].inode_num, fail), LAMBDA r :
      IF r.err # "" THEN [S |-> r.S, err |-> r.err]
      ELSE Let(set_end_loop(r.S, r.ino, (r.ino.size + KTFS_BLKSZ - 1) \div KTFS_BLKSZ,
                            (new_end + KTFS_BLKSZ - 1) \div KTFS_BLKSZ), LAMBDA l :
               IF l.err # "" THEN [S |-> l.S, err |-> l.err]
               ELSE Let(ktfs_write_inode(l.S, S.files[h].inode_num,
                                         [l.inode EXCEPT !.size = new_end]), LAMBDA w :
                        [S |-> [w EXCEPT !.files[h].size = new_end], err |-> ""])))
RECURSIVE free_direct(_, _, _)
free_direct(S, inode, i) ==
  IF i >= KTFS_NUM_DIRECT_DATA_BLOCKS THEN S
  ELSE Let(IF inode.block[i + 1] # 0
           THEN ktfs_bitmap_clear_bit(S, data_base + inode.block[i + 1])
           ELSE S, LAMBDA next : free_direct(next, inode, i + 1))
ktfs_free_inode_blocks(S, inum) ==
  Let(ktfs_read_inode(S, inum, FALSE), LAMBDA r : free_direct(r.S, r.ino, 0))
get_blocknum_for_offset(inode, file_block_index) ==
  Let(IF file_block_index < KTFS_NUM_DIRECT_DATA_BLOCKS
      THEN inode.block[file_block_index + 1] ELSE 0, LAMBDA b :
      [err |-> IF b # 0 THEN "" ELSE "ENOENT", blockno |-> b])

\* lock_acquire and lock_release of thread.c on fs.fs_lock, for a caller that
\* does not have to wait (the lock is free or its own).
fs_lock_acquire(S, t) ==
  IF S.fs_lock.owner = t
  THEN [S EXCEPT !.fs_lock.count = @ + 1]
  ELSE [S EXCEPT !.fs_lock = [owner |-> t, count |-> 1]]
fs_lock_release(S) ==
  IF S.fs_lock.count > 1
  THEN [S EXCEPT !.fs_lock.count = @ - 1]
  ELSE [S EXCEPT !.fs_lock = [owner |-> NULL, count |-> 0]]
\* The value an operation returns: an error name or "", a number, bytes read.
fs_ret(S, op, err, val, data) ==
  [S EXCEPT !.ret = [op |-> op, err |-> err, val |-> val, data |-> data]]
\* lock_release(&fs.fs_lock); return ...;
fs_return(S, op, err, val, data) ==
  Let(S, LAMBDA X : fs_ret(fs_lock_release(X), op, err, val, data))

RECURSIVE open_scan(_, _, _, _)
open_scan(S, root, i, name) ==
  IF i >= KTFS_NUM_DIRECT_DATA_BLOCKS THEN [S |-> S, found |-> FALSE, inum |-> 0]
  ELSE IF root.block[i + 1] = 0 /\ root.block[1] # 0 THEN open_scan(S, root, i + 1, name)
  ELSE Let(ktfs_read_data_block(S, root.block[i + 1]), LAMBDA r :
       Let({j \in 1 .. KTFS_BLKSZ : dentry_name(r.data[j]) = name}, LAMBDA hits :
           IF hits # {}
           THEN [S |-> r.S, found |-> TRUE, inum |-> dentry_inode(r.data[First(hits)])]
           ELSE open_scan(r.S, root, i + 1, name)))
\* create_seekable_io asks the new file for its block size and end through
\* ktfs_cntl, which takes and releases fs_lock once more inside the lock
\* ktfs_open holds; the handle it returns passes readat and writeat through.
create_seekable_io(S, t) ==
  Let(fs_lock_release(fs_lock_acquire(S, t)), LAMBDA X : fs_lock_release(fs_lock_acquire(X, t)))
ktfs_open(S, t, name, fail) ==
  Let(fs_lock_acquire(S, t), LAMBDA A :
  Let(ktfs_read_inode(A, fs_sb.root_directory_inode, fail), LAMBDA r :
      IF r.err # "" THEN fs_return(r.S, "open", r.err, 0, <<>>)
      ELSE Let(open_scan(r.S, r.ino, 0, name), LAMBDA s :
               IF ~s.found THEN fs_return(s.S, "open", "ENOENT", 0, <<>>)
               ELSE Let(ktfs_read_inode(s.S, s.inum, FALSE), LAMBDA f :
                    Let(First({x \in Handles : S.files[x].flags = 0}), LAMBDA h :
                    Let([f.S EXCEPT !.files[h] =
                           [flags |-> KTFS_FILE_IN_USE, inode_num |-> s.inum,
                            size |-> f.ino.size, name |-> name]], LAMBDA O :
                        fs_return(create_seekable_io(O, t), "open", "", h, <<>>)))))))
RECURSIVE readat_loop(_, _, _, _, _)
readat_loop(S, inode, pos, len, buf) ==
  IF Len(buf) >= len THEN [S |-> S, err |-> "", buf |-> buf]
  ELSE LET cur_pos == pos + Len(buf)
           block_offset == cur_pos % KTFS_BLKSZ
           bytes_left == len - Len(buf)
           to_copy == IF KTFS_BLKSZ - block_offset > bytes_left
                      THEN bytes_left ELSE KTFS_BLKSZ - block_offset
       IN Let(get_blocknum_for_offset(inode, cur_pos \div KTFS_BLKSZ), LAMBDA b :
              IF b.err # "" THEN [S |-> S, err |-> b.err, buf |-> buf]
              ELSE Let(ktfs_read_data_block(S, b.blockno), LAMBDA r :
                   Let(buf \o SubSeq(r.data, block_offset + 1, block_offset + to_copy),
                       LAMBDA next : readat_loop(r.S, inode, pos, len, next))))
ktfs_readat(S, t, h, pos, len, fail) ==
  Let(fs_lock_acquire(S, t), LAMBDA A :
      IF S.files[h].flags # KTFS_FILE_IN_USE THEN fs_return(A, "readat", "EINVAL", 0, <<>>)
      ELSE IF pos >= S.files[h].size THEN fs_return(A, "readat", "", 0, <<>>)
      ELSE Let(ktfs_read_inode(A, S.files[h].inode_num, fail), LAMBDA r :
               IF r.err # "" THEN fs_return(r.S, "readat", r.err, 0, <<>>)
               ELSE Let(readat_loop(r.S, r.ino, pos,
                                    IF pos + len > S.files[h].size
                                    THEN S.files[h].size - pos ELSE len, <<>>), LAMBDA l :
                        IF l.err # "" THEN fs_return(l.S, "readat", l.err, 0, <<>>)
                        ELSE fs_return(l.S, "readat", "", Len(l.buf), l.buf))))
ktfs_cntl(S, t, h, new_end, fail) ==
  Let(fs_lock_acquire(S, t), LAMBDA A :
  Let(ktfs_set_end(A, h, new_end, fail), LAMBDA e : fs_return(e.S, "cntl", e.err, 0, <<>>)))
ktfs_flush(S, t) ==
  Let(fs_lock_acquire(S, t), LAMBDA A : fs_return(cache_flush(A), "flush", "", 0, <<>>))
RECURSIVE writeat_loop(_, _, _, _, _)
writeat_loop(S, inode, pos, buf, total) ==
  IF total >= Len(buf) THEN [S |-> S, err |-> ""]
  ELSE LET cur == pos + total
           boff == cur % KTFS_BLKSZ
           left == Len(buf) - total
           to == IF KTFS_BLKSZ - boff > left THEN left ELSE KTFS_BLKSZ - boff
       IN Let(get_blocknum_for_offset(inode, cur \div KTFS_BLKSZ), LAMBDA b :
              IF b.err # "" THEN [S |-> S, err |-> b.err]
              ELSE Let(ktfs_read_block_cached(S, data_base + b.blockno, FALSE), LAMBDA g :
                   Let(cache_release_block(g.S, data_base + b.blockno,
                         [i \in 1 .. KTFS_BLKSZ |->
                            IF i > boff /\ i <= boff + to
                            THEN buf[total + i - boff] ELSE g.data[i]]), LAMBDA next :
                       writeat_loop(next, inode, pos, buf, total + to))))
ktfs_writeat(S, t, h, pos, buf, fail) ==
  Let(fs_lock_acquire(S, t), LAMBDA A :
      IF S.files[h].flags # KTFS_FILE_IN_USE THEN fs_return(A, "writeat", "EINVAL", 0, <<>>)
      ELSE Let(IF pos + Len(buf) > S.files[h].size
               THEN ktfs_set_end(A, h, pos + Len(buf), fail)
               ELSE [S |-> A, err |-> ""], LAMBDA e :
               IF e.err # "" THEN fs_return(e.S, "writeat", e.err, 0, <<>>)
               ELSE Let(ktfs_read_inode(e.S, S.files[h].inode_num,
                                        fail /\ ~(pos + Len(buf) > S.files[h].size)), LAMBDA r :
                        IF r.err # "" THEN fs_return(r.S, "writeat", r.err, 0, <<>>)
                        ELSE Let(writeat_loop(r.S, r.ino, pos, buf, 0), LAMBDA l :
                                 IF l.err # "" THEN fs_return(l.S, "writeat", l.err, 0, <<>>)
                                 ELSE fs_return(l.S, "writeat", "", Len(buf), <<>>)))))
NoSlot == [idx |-> 0 - 1, blk |-> 0 - 1]
RECURSIVE create_scan(_, _, _, _, _)
create_scan(S, root, i, name, free) ==
  IF i >= KTFS_NUM_DIRECT_DATA_BLOCKS THEN [S |-> S, dup |-> FALSE, free |-> free]
  ELSE IF root.block[i + 1] = 0 THEN create_scan(S, root, i + 1, name, free)
  ELSE Let(ktfs_read_data_block(S, root.block[i + 1]), LAMBDA r :
       Let({j \in 1 .. KTFS_BLKSZ : dentry_inode(r.data[j]) = 0}, LAMBDA empty :
           IF \E j \in 1 .. KTFS_BLKSZ :
                dentry_inode(r.data[j]) # 0 /\ dentry_name(r.data[j]) = name
           THEN [S |-> r.S, dup |-> TRUE, free |-> free]
           ELSE Let(IF free.idx < 0 /\ empty # {}
                    THEN [idx |-> First(empty) - 1, blk |-> i] ELSE free, LAMBDA next :
                    create_scan(r.S, root, i + 1, name, next))))
RECURSIVE find_free_inode(_, _)
find_free_inode(S, free_inum) ==
  IF free_inum >= fs_sb.inode_block_count * inodes_per_block
  THEN [S |-> S, free_inum |-> free_inum]
  ELSE Let(ktfs_read_inode(S, free_inum, FALSE), LAMBDA r :
           IF r.ino.flags = 0 THEN [S |-> r.S, free_inum |-> free_inum]
           ELSE find_free_inode(r.S, free_inum + 1))
\* The new inode and its directory entry, written once a slot and an inode
\* are found; set_bit: ktfs_bitmap_set(free_inum) comes first.
create_entry(S, root_inode, s, name, set_bit) ==
  Let(find_free_inode(S, 0), LAMBDA f :
      IF f.free_inum >= fs_sb.inode_block_count * inodes_per_block
      THEN [S |-> f.S, err |-> "ENOINODEBLKS"]
      ELSE Let(IF set_bit THEN ktfs_bitmap_set(f.S, f.free_inum) ELSE f.S, LAMBDA B :
           Let(ktfs_write_inode(B, f.free_inum, [zero_inode EXCEPT !.flags = KTFS_FILE_IN_USE]),
               LAMBDA W :
           Let(ktfs_read_data_block(W, root_inode.block[s.free.blk + 1]), LAMBDA d :
               [S |-> cache_write_block(d.S, data_base + root_inode.block[s.free.blk + 1],
                        [d.data EXCEPT ![s.free.idx + 1] = dentry(name, f.free_inum)]),
                err |-> ""]))))
\* The directory block ktfs_create gives a root inode that has none.
create_root_block(S, root) ==
  IF root.block[1] # 0 THEN [S |-> S, err |-> "", root |-> root]
  ELSE Let(ktfs_alloc_data_block(S), LAMBDA a :
           IF a.err # "" THEN [S |-> a.S, err |-> a.err, root |-> root]
           ELSE Let(ktfs_write_inode(a.S, fs_sb.root_directory_inode,
                                     [root EXCEPT !.block[1] = a.blkno]), LAMBDA W :
                    [S |-> cache_write_block(W, data_base + a.blkno, zero_block), err |-> "",
                     root |-> [root EXCEPT !.block[1] = a.blkno]]))
ktfs_create(S, t, name, fail) ==
  Let(fs_lock_acquire(S, t), LAMBDA A :
  Let(ktfs_read_inode(A, fs_sb.root_directory_inode, fail), LAMBDA r :
      IF r.err # "" THEN fs_return(r.S, "create", r.err, 0, <<>>)
      ELSE Let(create_root_block(r.S, r.ino), LAMBDA z :
               IF z.err # "" THEN fs_return(z.S, "create", z.err, 0, <<>>)
               ELSE Let(create_scan(z.S, z.root, 0, name, NoSlot), LAMBDA s :
                        IF s.dup \/ s.free.idx < 0
                        THEN fs_return(s.S, "create", "EINVAL", 0, <<>>)
                        ELSE Let(create_entry(s.S, z.root, s, name, TRUE), LAMBDA e :
                                 IF e.err # "" THEN fs_return(e.S, "create", e.err, 0, <<>>)
                                 ELSE Let(ktfs_update_root_size(e.S, 1), LAMBDA U :
                                          fs_return(U, "create", "", 0, <<>>)))))))
\* The earlier revision of ktfs_create: no directory block is allocated, no
\* bitmap bit set, the root size is left alone; when the root inode cannot be
\* read it takes fs_lock a second time before its one release.
ktfs_create_004(S, t, name, fail) ==
  Let(fs_lock_acquire(S, t), LAMBDA A :
  Let(ktfs_read_inode(A, fs_sb.root_directory_inode, fail), LAMBDA r :
      IF r.err # "" THEN fs_return(fs_lock_acquire(r.S, t), "create", r.err, 0, <<>>)
      ELSE Let(create_scan(r.S, r.ino, 0, name, NoSlot), LAMBDA s :
               IF s.dup \/ s.free.idx < 0
               THEN fs_return(s.S, "create", "EPERM", 0, <<>>)
               ELSE Let(create_entry(s.S, r.ino, s, name, FALSE), LAMBDA e :
                        fs_return(e.S, "create", e.err, 0, <<>>)))))
RECURSIVE delete_scan(_, _, _, _)
delete_scan(S, root, i, name) ==
  IF i >= KTFS_NUM_DIRECT_DATA_BLOCKS
  THEN [S |-> S, block_idx |-> 0 - 1, entry_idx |-> 0 - 1, target_inum |-> 0]
  ELSE IF root.block[i + 1] = 0 THEN delete_scan(S, root, i + 1, name)
  ELSE Let(ktfs_read_data_block(S, root.block[i + 1]), LAMBDA r :
       Let({j \in 1 .. KTFS_BLKSZ : dentry_inode(r.data[j]) = 0}, LAMBDA empty :
       Let({j \in 1 .. ((IF empty = {} THEN KTFS_BLKSZ + 1 ELSE First(empty)) - 1) :
              dentry_name(r.data[j]) = name}, LAMBDA hits :
           IF hits # {}
           THEN [S |-> r.S, block_idx |-> i, entry_idx |-> First(hits) - 1,
                 target_inum |-> dentry_inode(r.data[First(hits)])]
           ELSE delete_scan(r.S, root, i + 1, name))))
ktfs_delete(S, t, name, fail) ==
  Let(fs_lock_acquire(S, t), LAMBDA A :
  Let(ktfs_read_inode(A, fs_sb.root_directory_inode, fail), LAMBDA r :
      IF r.err # "" THEN fs_return(r.S, "delete", r.err, 0, <<>>)
      ELSE Let(delete_scan(r.S, r.ino, 0, name), LAMBDA s :
               IF s.block_idx < 0 THEN fs_return(s.S, "delete", "ENOENT", 0, <<>>)
               ELSE Let(ktfs_free_inode_blocks(s.S, s.target_inum), LAMBDA Fr :
                    Let(ktfs_write_inode(Fr, s.target_inum, zero_inode), LAMBDA Z :
                    Let(ktfs_bitmap_clear_bit(Z, s.target_inum), LAMBDA C :
                    Let(ktfs_read_data_block(C, r.ino.block[s.block_idx + 1]), LAMBDA d :
                    Let(cache_write_block(d.S, data_base + r.ino.block[s.block_idx + 1],
                          [k \in 1 .. KTFS_BLKSZ |->
                             IF k <= s.entry_idx THEN d.data[k]
                             ELSE IF k < KTFS_BLKSZ THEN d.data[k + 1] ELSE 0]), LAMBDA D :
                    Let(ktfs_shrink_root(D, 1), LAMBDA R :
                        fs_return(R, "delete", "", 0, <<>>))))))))))
\* ioclose of the handle ktfs_open returned: the seekable wrapper is freed.
\* The file object it wraps keeps the reference ioinit1 gave it, so
\* ktfs_close does not run; nothing of the filesystem changes.
NoFile == [flags |-> 0, inode_num |-> 0, size |-> 0, name |-> 0]
seekio_close(S, h) == fs_ret([S EXCEPT !.files[h] = NoFile], "close", "", 0, <<>>)

NoC9 == [stage |-> "none", h |-> 0, name |-> 0, pos |-> 0, data |-> <<>>, got |-> <<>>, err |-> ""]
NoC10 == [stage |-> "none", h |-> 0, name |-> 0, pre |-> 0]
\* An empty image: the bitmap has the bits of the metadata blocks set, the
\* root inode is in use with no entries.  reserve0: the image keeps data block
\* 0 allocated (0 is the inode's "no block"); rootblk: the root inode's first
\* directory block.
mkfs(reserve0, rootblk) ==
  [b \in 1 .. (NBlocks - 1) |->
     IF b <= fs_sb.bitmap_block_count
     THEN (0 .. (data_base - 1))
          \cup (IF reserve0 THEN {data_base} ELSE {})
          \cup (IF rootblk # 0 THEN {data_base + rootblk} ELSE {})
     ELSE IF b < data_base
     THEN [i \in 1 .. inodes_per_block |->
             IF i = fs_sb.root_directory_inode + 1
             THEN [zero_inode EXCEPT !.flags = KTFS_FILE_IN_USE, !.block[1] = rootblk]
             ELSE zero_inode]
     ELSE zero_block]
\* The filesystem after ktfs_mount: the cache created empty, fs_lock
\* initialised, no file open.
ktfs_mount(build, image) ==
  [build |-> build, disk |-> image, cache |-> <<>>, size |-> 0,
   fs_lock |-> [owner |-> NULL, count |-> 0],
   files |-> [h \in Handles |-> NoFile],
   ret |-> [op |-> "mount", err |-> "", val |-> 0, data |-> <<>>],
   c9 |-> NoC9, c10 |-> NoC10, nops |-> 0]
\* The image an earlier run left on the device: files 1 .. n created on an
\* empty image, then a flush.
RECURSIVE populate(_, _)
populate(S, n) ==
  IF n = 0 THEN S ELSE Let(populate(S, n - 1), LAMBDA X : ktfs_create(X, 0, n, FALSE))
populated(n) ==
  Let(populate(ktfs_mount("ktfs.c", mkfs(TRUE, 0)), n), LAMBDA X : ktfs_flush(X, 0).disk)
\* The same after one more file was created and deleted again.
used(n) ==
  Let(ktfs_create(ktfs_mount("ktfs.c", populated(n)), 0, n + 1, FALSE), LAMBDA X :
  Let(ktfs_delete(X, 0, n + 1, FALSE), LAMBDA Y : ktfs_flush(Y, 0).disk))
F0 == ktfs_mount("ktfs.c", mkfs(TRUE, 0))

\* What the filesystem holds in a block: the cached copy, else the device's.
fs_block(S, blk) ==
  IF \E i \in DOMAIN S.cache : S.cache[i].blocknum = blk
  THEN S.cache[cache_entry(S, blk)].data ELSE S.disk[blk]
\* Set bits of the data-area part of the bitmap.
data_bits(S) == Cardinality({b \in fs_block(S, 1) : b >= data_base /\ b < fs_sb.block_count})

\* The run of calls C9 is about: a writeat that returned its length on a
\* handle of a file that has not been deleted, the
\* readat of the same range on the same handle, close, flush, open of the
\* same name, the readat of the same range.  A call outside the run, or a
\* device failure, ends it.
observe_c9(S, R, op, h, name, pos, buf) ==
  LET c == S.c9
  IN IF op = "writeat" /\ R.ret.err = "" /\ R.ret.val = Len(buf) /\ Len(buf) > 0
        /\ S.files[h].name # 0
     THEN [stage |-> "written", h |-> h, name |-> S.files[h].name, pos |-> pos,
           data |-> buf, got |-> <<>>, err |-> ""]
     ELSE IF R.ret.err = "EIO" THEN NoC9
     ELSE IF op = "readat" /\ c.stage \in {"written", "reopened"} /\ h = c.h
             /\ pos = c.pos /\ Len(buf) = Len(c.data)
     THEN [c EXCEPT !.stage = IF c.stage = "written" THEN "read" ELSE "reread",
                    !.got = R.ret.data, !.err = R.ret.err]
     ELSE IF op = "close" /\ c.stage \in {"written", "read"} /\ h = c.h
     THEN [c EXCEPT !.stage = "closed"]
     ELSE IF op = "flush" /\ c.stage = "closed" /\ R.ret.err = ""
     THEN [c EXCEPT !.stage = "flushed"]
     ELSE IF op = "open" /\ c.stage = "flushed" /\ name = c.name
     THEN [c EXCEPT !.stage = IF R.ret.err = "" THEN "reopened" ELSE "noreopen",
                    !.h = R.ret.val, !.err = R.ret.err]
     ELSE NoC9
\* The run of calls C10 is about: create(name) in a directory that has its
\* block, open, one writeat of K whole blocks at 0, close, delete(name), flush.
observe_c10(S, R, op, h, name, pos, buf) ==
  LET c == S.c10
  IN IF R.ret.err # "" THEN NoC10
     ELSE IF op = "create"
             /\ fs_block(S, 1 + fs_sb.bitmap_block_count)[fs_sb.root_directory_inode + 1]
                  .block[1] # 0
     THEN [stage |-> "created", h |-> 0, name |-> name, pre |-> data_bits(S)]
     ELSE IF op = "open" /\ c.stage = "created" /\ name = c.name
     THEN [c EXCEPT !.stage = "opened", !.h = R.ret.val]
     ELSE IF op = "writeat" /\ c.stage = "opened" /\ h = c.h /\ pos = 0
             /\ Len(buf) > 0 /\ Len(buf) % KTFS_BLKSZ = 0 /\ R.ret.val = Len(buf)
     THEN [c EXCEPT !.stage = "written"]
     ELSE IF op = "close" /\ c.stage = "written" /\ h = c.h
     THEN [c EXCEPT !.stage = "closed"]
     ELSE IF op = "delete" /\ c.stage = "closed" /\ name = c.name
     THEN [c EXCEPT !.stage = "deleted"]
     ELSE IF op = "flush" /\ c.stage = "deleted"
     THEN [c EXCEPT !.stage = "flushed"]
     ELSE NoC10
\* files[h].name is the name the handle was opened by, 0 once a delete of that
\* name has succeeded.
observe(S, R, op, h, name, pos, buf) ==
  [R EXCEPT !.c9 = observe_c9(S, R, op, h, name, pos, buf),
            !.c10 = observe_c10(S, R, op, h, name, pos, buf),
            !.files = IF op = "delete" /\ R.ret.err = ""
                      THEN [x \in Handles |->
                              IF @[x].name = name THEN [@[x] EXCEPT !.name = 0] ELSE @[x]]
                      ELSE @,
            !.nops = @ + 1]

\* A caller enters an operation when lock_acquire would not make it wait.
FsMay(t, build) ==
  /\ F.nops < MaxFsOps
  /\ F.build = build
  /\ F.fs_lock.owner \in {NULL, t}
  /\ F.fs_lock.count < NFsThr + 1
\* The ranges <<pos, len>> the callers read and write: inside a block, across
\* two blocks, and K whole blocks from 0.
Ranges ==
  {<<0, 2>>, <<KTFS_BLKSZ - 2, KTFS_BLKSZ>>}
    \cup {<<0, k * KTFS_BLKSZ>> : k \in 1 .. KTFS_NUM_DIRECT_DATA_BLOCKS}
\* The device read of an operation's first block can fail when the block is
\* not in the cache.
Fails(inum) ==
  IF \E i \in DOMAIN F.cache :
       F.cache[i].blocknum = 1 + fs_sb.bitmap_block_count + (inum \div inodes_per_block)
  THEN {FALSE} ELSE BOOLEAN
Fill(len, d) == [i \in 1 .. len |-> d]
OpenHandles == {h \in Handles : F.files[h].flags # 0}

FsCreate(t) ==
  /\ FsMay(t, "ktfs.c")
  /\ \E name \in Names, fail \in Fails(fs_sb.root_directory_inode) :
       \E R \in {ktfs_create(F, t, name, fail)} :
         F' = observe(F, R, "create", 0, name, 0, <<>>)
  /\ UNCHANGED <<K, P, M>>
FsCreate004(t) ==
  /\ FsMay(t, "part_004")
  /\ \E name \in Names, fail \in Fails(fs_sb.root_directory_inode) :
       \E R \in {ktfs_create_004(F, t, name, fail)} :
         F' = observe(F, R, "create", 0, name, 0, <<>>)
  /\ UNCHANGED <<K, P, M>>
FsOpen(t) ==
  /\ FsMay(t, "ktfs.c")
  /\ OpenHandles # Handles
  /\ \E name \in Names, fail \in Fails(fs_sb.root_directory_inode) :
       \E R \in {ktfs_open(F, t, name, fail)} :
         F' = observe(F, R, "open", 0, name, 0, <<>>)
  /\ UNCHANGED <<K, P, M>>
FsReadat(t) ==
  /\ FsMay(t, "ktfs.c")
  /\ \E h \in OpenHandles, r \in Ranges :
       \E fail \in Fails(F.files[h].inode_num) :
       \E R \in {ktfs_readat(F, t, h, r[1], r[2], fail)} :
         F' = observe(F, R, "readat", h, 0, r[1], Fill(r[2], 0))
  /\ UNCHANGED <<K, P, M>>
FsWriteat(t) ==
  /\ FsMay(t, "ktfs.c")
  /\ \E h \in OpenHandles, r \in Ranges, d \in 1 .. MaxByte :
       \E fail \in Fails(F.files[h].inode_num) :
       \E R \in {ktfs_writeat(F, t, h, r[1], Fill(r[2], d), fail)} :
         F' = observe(F, R, "writeat", h, 0, r[1], Fill(r[2], d))
  /\ UNCHANGED <<K, P, M>>
FsSetEnd(t) ==
  /\ FsMay(t, "ktfs.c")
  /\ \E h \in OpenHandles :
       \E fail \in Fails(F.files[h].inode_num) :
       \E R \in {ktfs_cntl(F, t, h, KTFS_BLKSZ, fail)} :
         F' = observe(F, R, "cntl", h, 0, 0, <<>>)
  /\ UNCHANGED <<K, P, M>>
FsClose(t) ==
  /\ FsMay(t, "ktfs.c")
  /\ \E h \in OpenHandles :
       \E R \in {seekio_close(F, h)} : F' = observe(F, R, "close", h, 0, 0, <<>>)
  /\ UNCHANGED <<K, P, M>>
FsDelete(t) ==
  /\ FsMay(t, "ktfs.c")
  /\ \E name \in Names, fail \in Fails(fs_sb.root_directory_inode) :
       \E R \in {ktfs_delete(F, t, name, fail)} :
         F' = observe(F, R, "delete", 0, name, 0, <<>>)
  /\ UNCHANGED <<K, P, M>>
FsFlush(t) ==
  /\ FsMay(t, "ktfs.c")
  /\ \E R \in {ktfs_flush(F, t)} : F' = observe(F, R, "flush", 0, 0, 0, <<>>)
  /\ UNCHANGED <<K, P, M>>

InitThr == K = K0 /\ P = P0 /\ M = M0 /\ F = F0
NextThr ==
    \/ DoSpawn \/ DoYield \/ DoExit \/ ExitRelease \/ ExitFinish \/ DoJoin
    \/ DoAcquire \/ DoRelease \/ DoWaitMasked \/ DoWait \/ WaitSuspend
    \/ Swtch \/ ISR \/ Idle
SpecThr == InitThr /\ [][NextThr]_vars

(***************************************************************************)
(* Properties of the thread manager                                        *)
(***************************************************************************)
\* The frames of thread t below its suspension show it inside thread_join(0) /
\* thread_join(tid > 0) / condition_wait called from a driver.
InCall(S, t, pc) == Len(S.stk[t]) >= 2 /\ S.stk[t][2].pc = pc
Blocked(S, t) == S.thrtab[t] /\ S.tstate[t] = THREAD_WAITING /\ S.TP # t

\* C1: condition_wait is atomic with respect to interrupts: a thread that has
\* begun waiting on a condition an interrupt handler broadcasts never comes
\* back from condition_wait still running while it is marked ready and
\* linked on the ready list.
C1_WaitAtomic ==
    \A t \in Tids :
        (K.sys = "run" /\ K.TP = t /\ Top(K, t).pc = "top"
         /\ K.ret.op = "wait" /\ K.ret.t = t)
            => ~(K.tstate[t] = THREAD_READY /\ OnList(K, READY_LIST, t))

\* C2: once a thread other than main has exited, no lock has it as owner and
\* none of the locks it held keeps a nonzero count.
C2_ExitReleasesLocks ==
    \A t \in Tids : \A l \in Locks :
        (K.thrtab[t] /\ K.tstate[t] = THREAD_EXITED)
            => (K.lock[l].owner # t /\ K.lock_list[t] = NULL)

\* C3: a thread that called thread_join(0) is not left waiting on its
\* child_exit condition while one of its children has exited, whether the
\* child exited before or after the call.
C3_JoinAnyReturns ==
    \A t \in Tids :
        (K.sys = "run" /\ InCall(K, t, "join0") /\ Blocked(K, t))
            => ExitedChildren(K, t) = {}

\* C4: thread_join(tid) on a child returns tid and leaves the child's slot of
\* thrtab free for create_thread; the parent is never left waiting for a
\* child that has exited.
C4_JoinChildReclaims ==
    /\ (K.ret.op = "join" /\ K.ret.arg > 0 /\ K.ret.err = "")
          => (K.ret.val = K.ret.arg /\ K.ret.arg \in FreeSlots(K)
              /\ K.ret.arg \in K.reaped)
    /\ \A t \in Tids :
          (K.sys = "run" /\ InCall(K, t, "joinN") /\ Blocked(K, t))
              => K.tstate[K.stk[t][2].a] # THREAD_EXITED
C4_JoinedChild ==
    /\ K.sys = "run"
    /\ K.ret.op = "join" /\ K.ret.arg > 0 /\ K.ret.val = K.ret.arg
    /\ K.ret.t = MAIN_TID /\ K.TP = MAIN_TID

(***************************************************************************)
(* FORK                                                                    *)
(***************************************************************************)
InitFork ==
    /\ K = K0 /\ M = M0 /\ F = F0
    /\ \E text \in [PCs -> {"ecall", "op"}] : P = PStart(text)
NextFork ==
    \E p \in Tids :
        \/ UserOp(p) \/ Ecall(p) \/ ForkCall(p) \/ ForkFunc(p) \/ ForkReturn(p)
        \/ SysExit(p) \/ SysPrint(p)
SpecFork == InitFork /\ [][NextFork]_vars

\* C6: after a successful FORK both the parent and the child resume at the
\* instruction after the ecall, the parent with the child's thread id in a0,
\* the child with 0 in a0.
C6_ForkResume ==
    \A p \in Tids :
        /\ P.proc[p].last.kind = "fork_parent"
              => /\ P.proc[p].regs.sepc = P.proc[p].last.epc + NEXT_RISCV_INSTRUCTION
                 /\ P.proc[p].regs.a0 = P.proc[p].last.child
        /\ P.proc[p].last.kind = "fork_child"
              => /\ P.proc[p].regs.sepc = P.proc[p].last.epc + NEXT_RISCV_INSTRUCTION
                 /\ P.proc[p].regs.a0 = 0

(***************************************************************************)
(* ADDRESS SPACES                                                          *)
(***************************************************************************)
InitMem == K = K0 /\ P = P0 /\ M = M0 /\ F = F0
NextMem ==
    \/ MemAllocMap \/ MemFault \/ MemStore \/ MemUnmap \/ MemReset \/ MemClone
    \/ MemSwitch \/ MemDiscard
SpecMem == InitMem /\ [][NextMem]_vars

\* C7: after reset_active_mspace no virtual page of the user region has a
\* valid mapping in the active space, and the kernel entries of its root
\* table are those of the boot table.
C7_ResetUnmapsUser ==
    (M.sys = "run" /\ M.last.op = "reset")
        => /\ \A v \in UserVAs : Translate(M, M.satp, v) = NULL
           /\ \A i \in 0 .. (PTE_CNT - 2) :
                  M.mem[M.satp].pte[i] = M0.mem[main_pt2].pte[i]

\* C8: two address spaces never map a user page to the same physical page:
\* a clone has its own copy of every user page, so a store in one space is
\* not visible in the other.
C8_CloneCopiesPages ==
    \A r1 \in M.spaces : \A r2 \in M.spaces \ {r1} : \A v \in UserVAs :
        Translate(M, r1, v) # NULL => Translate(M, r2, v) # Translate(M, r1, v)

(***************************************************************************)
(* FILESYSTEM                                                              *)
(***************************************************************************)
InitFS ==
  /\ K = K0 /\ P = P0 /\ M = M0
  /\ \/ F = F0
     \/ F = ktfs_mount("ktfs.c", populated(NPre))
     \/ F = ktfs_mount("ktfs.c", used(NPre))
     \/ F = ktfs_mount("part_004", mkfs(TRUE, 1))
NextFS ==
  \E t \in 0 .. (NFsThr - 1) :
    \/ FsCreate(t) \/ FsCreate004(t) \/ FsOpen(t) \/ FsReadat(t) \/ FsWriteat(t)
    \/ FsSetEnd(t) \/ FsClose(t) \/ FsDelete(t) \/ FsFlush(t)
SpecFS == InitFS /\ [][NextFS]_vars

\* C5: when an operation of the filesystem has returned, fs_lock has the owner
\* and the recursion count it had when the operation was entered: no owner
\* and count 0, so that any other thread can take it.
C5_LockReleased == F.fs_lock.owner = NULL /\ F.fs_lock.count = 0

\* C9: a readat that follows a writeat of the same range on the same handle
\* returns the bytes written, and so does the readat of that range after
\* close, flush and an open of the same name, which succeeds.
C9_ReadBack ==
  /\ F.c9.stage \in {"read", "reread"} => (F.c9.err = "" /\ F.c9.got = F.c9.data)
  /\ F.c9.stage # "noreopen"

\* C10: after create(name), a writeat of K whole blocks, close, delete(name)
\* and flush, as many data-area bits of the bitmap are set as before the
\* create.
C10_DeleteFreesBlocks == F.c10.stage = "flushed" => data_bits(F) = F.c10.pre

(***************************************************************************)
(* BLOCK CACHE  (cache.c) over a device whose transfers can fail            *)
(***************************************************************************)
\* Blocks of the backing device.
NCacheBlocks == 3
\* Cache calls in one run.
MaxCacheOps == 5
CacheBlocks == 1 .. NCacheBlocks
NoEvict == [blk |-> NULL, dirty |-> FALSE, data |-> 0, first |-> NULL]
\* create_cache over a device: no entry.  want is what the callers have been
\* told is written (the data of the latest dirty release of each block),
\* order the blocks in the cache by the time they were inserted, ev the
\* entry the last call unlinked.
create_cache(disk) ==
  [disk |-> disk, cache |-> <<>>, size |-> 0, ret |-> [op |-> "create", err |-> ""],
   want |-> disk, order |-> <<>>, ev |-> NoEvict, nops |-> 0]
cached(S) == {S.cache[i].blocknum : i \in DOMAIN S.cache}
\* What a call did to the list of entries, seen from outside the list.
cache_observe(S, R, op, err, want) ==
  LET out == cached(S) \ cached(R)
      in  == cached(R) \ cached(S)
      kept == SelectSeq(S.order, LAMBDA b : b \notin out)
  IN [R EXCEPT !.ret = [op |-> op, err |-> err],
               !.want = want,
               !.order = IF in = {} THEN kept ELSE Append(kept, CHOOSE b \in in : TRUE),
               !.ev = IF out = {} THEN NoEvict
                      ELSE LET b == CHOOSE x \in out : TRUE
                           IN [blk |-> b, dirty |-> S.cache[cache_entry(S, b)].dirty,
                               data |-> S.cache[cache_entry(S, b)].data,
                               first |-> Head(S.order)],
               !.nops = S.nops + 1]
\* cache_get_block(pos) followed by cache_release_block(pblk, dirty); with
\* dirty the caller has stored data in the block.
CacheGetRelease ==
  /\ F.nops < MaxCacheOps
  /\ \E blk \in CacheBlocks, dirty \in BOOLEAN, data \in 0 .. MaxByte,
        wfail \in BOOLEAN, rfail \in BOOLEAN :
       /\ dirty \/ data = 0
       /\ \E g \in {cache_get_block_dev(F, blk, wfail, rfail)} :
            F' = cache_observe(F,
                   IF g.err = "" /\ dirty THEN cache_release_block(g.S, blk, data) ELSE g.S,
                   "get", g.err,
                   IF g.err = "" /\ dirty THEN [F.want EXCEPT ![blk] = data] ELSE F.want)
  /\ UNCHANGED <<K, P, M>>
CacheFlush ==
  /\ F.nops < MaxCacheOps
  /\ \E failat \in 0 .. CACHE_CAPACITY :
       \E r \in {cache_flush_dev(F, failat)} :
         F' = cache_observe(F, r.S, "flush", r.err, F.want)
  /\ UNCHANGED <<K, P, M>>
\* A cold remount: create_cache over the device as it is.
CacheRemount ==
  /\ F.nops < MaxCacheOps
  /\ F.ret.op = "flush" /\ F.ret.err = ""
  /\ F' = [create_cache(F.disk) EXCEPT !.nops = F.nops + 1]
  /\ UNCHANGED <<K, P, M>>
InitCache ==
  /\ K = K0 /\ P = P0 /\ M = M0
  /\ F = create_cache([b \in CacheBlocks |-> 0])
NextCache == CacheGetRelease \/ CacheFlush \/ CacheRemount
SpecCache == InitCache /\ [][NextCache]_vars

\* C11: the entry a cache_get_block drops from a full cache is the one that
\* was inserted earliest, and when it was dirty the device holds its data
\* once it has been dropped.
C11_EvictFifoWriteBack ==
  F.ev.blk # NULL =>
    /\ F.ev.blk = F.ev.first
    /\ F.ev.dirty => F.disk[F.ev.blk] = F.ev.data

\* C12: when cache_flush has returned 0 the device holds, for every block,
\* the data of its latest dirty release, whether the entry is still in the
\* cache or was evicted before.
C12_FlushPersistsAll ==
  (F.ret.op = "flush" /\ F.ret.err = "") => \A b \in CacheBlocks : F.disk[b] = F.want[b]

(***************************************************************************)
(* SEEKABLE I/O  (io.c) and the READ / WRITE system calls on it             *)
(***************************************************************************)
\* Bytes the backing endpoint can hold.
SeekCap == 4
\* Calls on the descriptor in one run.
MaxSeekOps == 4
\* The backing endpoint: a transfer is clamped to the capacity (memio) or
\* fails (a device); val is the count returned, err the error.
bkg_readat(pos, bufsz, fail) ==
  IF fail THEN [err |-> "EIO", val |-> 0]
  ELSE IF pos >= SeekCap THEN [err |-> "", val |-> 0]
  ELSE [err |-> "", val |-> IF bufsz > SeekCap - pos THEN SeekCap - pos ELSE bufsz]
bkg_writeat(pos, len, fail) ==
  IF fail THEN [err |-> "EIO", val |-> 0]
  ELSE IF pos >= SeekCap THEN [err |-> "EINVAL", val |-> 0]
  ELSE [err |-> "", val |-> IF len > SeekCap - pos THEN SeekCap - pos ELSE len]
bkg_setend(end) == IF end > SeekCap THEN "EINVAL" ELSE ""
\* sio->pos = pos + (cnt < 0) ? 0 : cnt;  in io.c the conditional takes
\* pos + (cnt < 0) as its condition; part_006 has the parentheses.
seekio_advance(build, pos, r) ==
  IF build = "io.c"
  THEN IF pos + (IF r.err # "" THEN 1 ELSE 0) # 0 THEN 0 ELSE r.val
  ELSE pos + (IF r.err # "" THEN 0 ELSE r.val)
seek_ret(S, op, err, val, at) ==
  [S EXCEPT !.ret = [op |-> op, err |-> err, val |-> val, pos0 |-> S.pos, at |-> at],
            !.nops = S.nops + 1]
\* end - pos < n on unsigned long long.
seek_room_below(S, n) == S.pos <= S.end /\ S.end - S.pos < n
seekio_read(S, bufsz, fail) ==
  Let(IF seek_room_below(S, bufsz) THEN S.end - S.pos ELSE bufsz, LAMBDA n :
      IF n = 0 THEN seek_ret(S, "read", "", 0, S.pos)
      ELSE IF n < S.blksz THEN seek_ret(S, "read", "EINVAL", 0, S.pos)
      ELSE Let(bkg_readat(S.pos, n - (n % S.blksz), fail), LAMBDA r :
               [seek_ret(S, "read", r.err, r.val, S.pos)
                  EXCEPT !.pos = seekio_advance(S.build, S.pos, r)]))
seekio_write(S, len, fail) ==
  IF len = 0 THEN seek_ret(S, "write", "", 0, S.pos)
  ELSE IF len < S.blksz THEN seek_ret(S, "write", "EINVAL", 0, S.pos)
  ELSE Let(len - (len % S.blksz), LAMBDA n :
       IF seek_room_below(S, n) /\ bkg_setend(S.pos + n) # ""
       THEN seek_ret(S, "write", bkg_setend(S.pos + n), 0, S.pos)
       ELSE Let(bkg_writeat(S.pos, n, fail), LAMBDA r :
                [seek_ret(S, "write", r.err, r.val, S.pos)
                   EXCEPT !.pos = seekio_advance(S.build, S.pos, r),
                          !.end = IF seek_room_below(S, n) THEN S.pos + n ELSE S.end]))
\* seekio_cntl, IOCTL_SETPOS and IOCTL_SETEND.
seekio_setpos(S, p) ==
  IF p % S.blksz # 0 \/ p > S.end THEN seek_ret(S, "setpos", "EINVAL", 0, S.pos)
  ELSE [seek_ret(S, "setpos", "", 0, S.pos) EXCEPT !.pos = p]
seekio_setend(S, e) ==
  IF bkg_setend(e) # "" THEN seek_ret(S, "setend", bkg_setend(e), 0, S.pos)
  ELSE [seek_ret(S, "setend", "", 0, S.pos) EXCEPT !.end = e]
\* long syswrite(int fd, const void * buf, size_t len) on a valid descriptor
\* and buffer: a write shorter than the block size goes through
\* IOCTL_GETPOS, iowriteat and IOCTL_SETPOS, any other through write.
syswrite(S, len, fail) ==
  IF len > 0 /\ len < S.blksz
  THEN Let(bkg_writeat(S.pos, len, fail), LAMBDA w :
           IF w.err = "" /\ w.val > 0
           THEN Let(seekio_setpos(S, S.pos + w.val), LAMBDA T :
                    IF T.ret.err # ""
                    THEN seek_ret(S, "small", "EIO", w.val, S.pos)
                    ELSE [seek_ret(S, "small", "", w.val, S.pos) EXCEPT !.pos = T.pos])
           ELSE seek_ret(S, "small", w.err, w.val, S.pos))
  ELSE seekio_write(S, len, fail)
\* create_seekable_io over a backing endpoint with the given block size and
\* end.
seekio_open(build, blksz, end) ==
  [build |-> build, blksz |-> blksz, pos |-> 0, end |-> end,
   ret |-> [op |-> "open", err |-> "", val |-> 0, pos0 |-> 0, at |-> 0], nops |-> 0]

SysRead ==
  /\ F.nops < MaxSeekOps
  /\ \E bufsz \in 0 .. SeekCap, fail \in BOOLEAN : F' = seekio_read(F, bufsz, fail)
  /\ UNCHANGED <<K, P, M>>
SysWrite ==
  /\ F.nops < MaxSeekOps
  /\ \E len \in 0 .. SeekCap, fail \in BOOLEAN : F' = syswrite(F, len, fail)
  /\ UNCHANGED <<K, P, M>>
SysSetPos ==
  /\ F.nops < MaxSeekOps
  /\ \E p \in 0 .. SeekCap : F' = seekio_setpos(F, p)
  /\ UNCHANGED <<K, P, M>>
SysSetEnd ==
  /\ F.nops < MaxSeekOps
  /\ \E e \in 0 .. (SeekCap + 1) : F' = seekio_setend(F, e)
  /\ UNCHANGED <<K, P, M>>
InitSeek ==
  /\ K = K0 /\ P = P0 /\ M = M0
  /\ \E build \in {"io.c", "part_006"}, blksz \in {1, 2}, end \in {0, SeekCap} :
       F = seekio_open(build, blksz, end)
NextSeek == SysRead \/ SysWrite \/ SysSetPos \/ SysSetEnd
SpecSeek == InitSeek /\ [][NextSeek]_vars

\* C13: a seekio_read or seekio_write that transferred n >= 0 bytes leaves
\* the cursor at its previous position plus n, and one that returned an
\* error leaves it where it was.
C13_CursorAdvances ==
  F.ret.op \in {"read", "write"} =>
    F.pos = F.ret.pos0 + (IF F.ret.err = "" THEN F.ret.val ELSE 0)

MaxLockOps == 7
\* Deepest nesting of lock_acquire by one thread on one lock.
LockDepth == 3
\* Under SpecLock F counts, for each thread and lock, the calls of
\* lock_acquire minus the calls of lock_release (acq) and the largest value
\* that difference has had (peak).
LockCalls0 ==
  [acq |-> [t \in Tids |-> [l \in Locks |-> 0]],
   peak |-> [t \in Tids |-> [l \in Locks |-> 0]]]
\* The levels thread t holds of lock l: its calls of lock_acquire that have
\* returned and are not yet matched by a lock_release.
held(t, l) ==
  F.acq[t][l] - (IF InCall(K, t, "acq") /\ K.stk[t][2].a = l THEN 1 ELSE 0)
LkAcquire ==
  /\ AtTop /\ K.TP # IDLE_TID /\ K.ops < MaxLockOps
  /\ \E l \in Locks :
       /\ F.acq[K.TP][l] < LockDepth
       /\ K' = Called(lock_acquire(K, l))
       /\ F' = [F EXCEPT !.acq[K.TP][l] = @ + 1,
                         !.peak[K.TP][l] = IF @ < F.acq[K.TP][l] + 1
                                           THEN F.acq[K.TP][l] + 1 ELSE @]
  /\ UNCHANGED <<P, M>>
LkRelease ==
  /\ AtTop /\ K.TP # IDLE_TID /\ K.ops < MaxLockOps
  /\ \E l \in Locks :
       /\ K.lock[l].owner = K.TP
       /\ K' = Called(lock_release(K, l))
       /\ F' = [F EXCEPT !.acq[K.TP][l] = @ - 1]
  /\ UNCHANGED <<P, M>>
LkYield ==
  /\ AtTop /\ K.TP # IDLE_TID
  /\ K' = AfterSuspend(running_thread_suspend(K))
  /\ UNCHANGED <<P, M, F>>
\* main has spawned one thread.
InitLock ==
  /\ K = thread_spawn(K0, FALSE) /\ P = P0 /\ M = M0
  /\ F = LockCalls0
NextLock == LkAcquire \/ LkRelease \/ LkYield \/ Swtch \/ Idle
SpecLock == InitLock /\ [][NextLock]_vars

\* C14: a thread that holds h > 0 levels of a lock is its owner and the
\* recursion count is h, so the count follows the nested acquires up and the
\* releases down with the owner unchanged; a thread that holds no level is
\* not the owner, so no other thread comes back from lock_acquire before the
\* last release; and the lock has no owner exactly when its count is 0.
C14_RecursiveLock ==
  \A l \in Locks :
    /\ (K.lock[l].owner = NULL) <=> (K.lock[l].count = 0)
    /\ \A t \in Tids :
         IF held(t, l) > 0
         THEN K.lock[l].owner = t /\ K.lock[l].count = held(t, l)
         ELSE K.lock[l].owner # t
\* One thread has been three levels deep and has released them all, and a
\* different thread has acquired the lock since.
C14_ThreeDeepThenOther ==
  \E l \in Locks : \E t \in Tids : \E u \in Tids \ {t} :
    /\ F.peak[t][l] = 3 /\ F.acq[t][l] = 0
    /\ held(u, l) > 0 /\ K.lock[l].owner = u

(***************************************************************************)
(* ALARMS  (timer.c)                                                        *)
(***************************************************************************)
\* Threads that sleep, each on its own alarm.
NSleepers == 2
\* Ticks of the time counter in one run.
MaxTime == 3
\* Largest tcnt passed to alarm_sleep.
MaxTcnt == 2
Sleepers == 1 .. NSleepers
\* UINT64_MAX: a time the counter does not reach.
TimeNever == MaxTime + MaxTcnt * (MaxTime + 1) + 1
\* timer_init; alarm_init of every alarm at time 0.  at[t] is where thread t
\* is: "run" outside alarm_sleep, "insert" after the test of twake against
\* now, "sleep" suspended in condition_wait, "ready" after the broadcast.
timer_init ==
  [now |-> 0, stcmp |-> TimeNever, sti |-> FALSE, sleep_list |-> NULL,
   next |-> [t \in Sleepers |-> NULL], twake |-> [t \in Sleepers |-> 0],
   at |-> [t \in Sleepers |-> "run"], sys |-> "run",
   ret |-> [t |-> NULL, twake |-> 0, now |-> 0]]
\* The alarms linked from sleep_list.
RECURSIVE alarm_chain(_, _, _)
alarm_chain(S, al, n) ==
  IF al = NULL \/ n = 0 THEN <<>> ELSE <<al>> \o alarm_chain(S, S.next[al], n - 1)
\* alarm_sleep up to its return for a wake time that has passed: twake is
\* advanced by tcnt (from now when the alarm was just initialised, as
\* sleep_us does) and compared with now, interrupts still enabled.
alarm_sleep_enter(S, t, tcnt, init) ==
  Let(IF init THEN S.now + tcnt ELSE S.twake[t] + tcnt, LAMBDA w :
      IF w < S.now
      THEN [S EXCEPT !.twake[t] = w, !.ret = [t |-> t, twake |-> w, now |-> S.now]]
      ELSE [S EXCEPT !.twake[t] = w, !.at[t] = "insert"])
\* The loop of alarm_sleep that looks for the place of the alarm.
RECURSIVE alarm_find(_, _, _, _, _)
alarm_find(S, t, prev, iter, n) ==
  IF iter # NULL /\ n > 0 /\ S.twake[iter] < S.twake[t]
  THEN alarm_find(S, t, iter, S.next[iter], n - 1)
  ELSE [prev |-> prev, iter |-> iter]
\* alarm_sleep from disable_interrupts to the suspension in condition_wait.
\* prev->next = al with prev == NULL is a store through a null pointer
\* (deref): the kernel faults, or the store lands outside the list.
alarm_sleep_insert(S, t, deref) ==
  Let(IF S.sleep_list = NULL
      THEN [S EXCEPT !.next[t] = NULL, !.sleep_list = t, !.stcmp = S.twake[t]]
      ELSE IF S.twake[t] < S.twake[S.sleep_list]
      THEN [S EXCEPT !.next[t] = S.sleep_list, !.sleep_list = t, !.stcmp = S.twake[t]]
      ELSE Let(alarm_find(S, t, NULL, S.sleep_list, NSleepers), LAMBDA f :
               IF f.prev = NULL
               THEN IF deref = "fault" THEN [S EXCEPT !.sys = "null_deref"]
                    ELSE [S EXCEPT !.next[t] = f.iter]
               ELSE [S EXCEPT !.next[f.prev] = t, !.next[t] = f.iter]),
      LAMBDA X : IF X.sys # "run" THEN X ELSE [X EXCEPT !.sti = TRUE, !.at[t] = "sleep"])
\* handle_timer_interrupt: the heads with twake <= now are unlinked and their
\* conditions broadcast; the compare register is set to the new head's
\* twake, or the timer interrupt is disabled.
RECURSIVE timer_drain(_, _, _)
timer_drain(S, head, n) ==
  IF head # NULL /\ n > 0 /\ S.twake[head] <= S.now
  THEN timer_drain([S EXCEPT !.at[head] = IF @ = "sleep" THEN "ready" ELSE @,
                             !.next[head] = NULL], S.next[head], n - 1)
  ELSE [S EXCEPT !.sleep_list = head]
handle_timer_interrupt(S) ==
  Let(timer_drain(S, S.sleep_list, NSleepers), LAMBDA X :
      IF X.sleep_list # NULL THEN [X EXCEPT !.stcmp = X.twake[X.sleep_list]]
      ELSE [X EXCEPT !.sti = FALSE, !.stcmp = TimeNever])

AlarmSleep(t) ==
  /\ F.sys = "run" /\ F.at[t] = "run"
  /\ \E tcnt \in 0 .. MaxTcnt, init \in BOOLEAN : F' = alarm_sleep_enter(F, t, tcnt, init)
  /\ UNCHANGED <<K, P, M>>
AlarmInsert(t) ==
  /\ F.sys = "run" /\ F.at[t] = "insert"
  /\ \E deref \in {"fault", "stray"} : F' = alarm_sleep_insert(F, t, deref)
  /\ UNCHANGED <<K, P, M>>
\* The time counter advances.
TimerTick ==
  /\ F.sys = "run" /\ F.now < MaxTime
  /\ F' = [F EXCEPT !.now = @ + 1]
  /\ UNCHANGED <<K, P, M>>
\* The timer interrupt is taken: it is enabled and time >= stcmp.
TimerIntr ==
  /\ F.sys = "run" /\ F.sti /\ F.now >= F.stcmp
  /\ F' = handle_timer_interrupt(F)
  /\ UNCHANGED <<K, P, M>>
\* A woken sleeper runs again and returns from alarm_sleep.
AlarmResume(t) ==
  /\ F.sys = "run" /\ F.at[t] = "ready"
  /\ F' = [F EXCEPT !.at[t] = "run", !.ret = [t |-> t, twake |-> F.twake[t], now |-> F.now]]
  /\ UNCHANGED <<K, P, M>>
InitTimer == K = K0 /\ P = P0 /\ M = M0 /\ F = timer_init
NextTimer ==
  \/ TimerTick \/ TimerIntr
  \/ \E t \in Sleepers : AlarmSleep(t) \/ AlarmInsert(t) \/ AlarmResume(t)
SpecTimer == InitTimer /\ [][NextTimer]_vars

\* C15: alarm_sleep does not fault, every thread suspended in alarm_sleep has
\* its alarm on the sleep list with the timer interrupt enabled and the
\* compare register not after the head's wake time (so that the interrupt
\* that wakes it will come), and a thread that returns from alarm_sleep does
\* so at or after its wake time.
C15_SleepersWake ==
  /\ F.sys = "run"
  /\ \A t \in Sleepers :
       F.at[t] = "sleep" =>
         /\ \E i \in 1 .. NSleepers :
              i <= Len(alarm_chain(F, F.sleep_list, NSleepers))
              /\ alarm_chain(F, F.sleep_list, NSleepers)[i] = t
         /\ F.sti /\ F.stcmp <= F.twake[t]
  /\ F.ret.t # NULL => F.ret.now >= F.ret.twake

(***************************************************************************)
(* PAGE ACCOUNTING  (memory.c)                                             *)
(***************************************************************************)
\* free_phys_page_count: the pages of the chunks on free_chunk_list.
RECURSIVE free_phys_page_count(_, _)
free_phys_page_count(S, i) ==
  IF i > Len(S.chunks) THEN 0 ELSE S.chunks[i].pagecnt + free_phys_page_count(S, i + 1)
free_pages(S) ==
  UNION {c.base .. (c.base + c.pagecnt - 1) : c \in {S.chunks[i] : i \in DOMAIN S.chunks}}
\* The pool pages a table holds: itself, the tables below it and the pages
\* its level-0 leaves map.
RECURSIVE ptab_pages(_, _, _)
ptab_pages(S, tab, lvl) ==
  {tab} \cup UNION {IF ~PTE_VALID(S.mem[tab].pte[i]) THEN {}
                    ELSE IF lvl = 0 THEN {S.mem[tab].pte[i].ppn}
                    ELSE IF PTE_LEAF(S.mem[tab].pte[i]) THEN {}
                    ELSE ptab_pages(S, S.mem[tab].pte[i].ppn, lvl - 1)
                    : i \in 0 .. (PTE_CNT - 1)}
\* The pool pages a live address space holds: its root table (the boot root
\* is static) and what its user-region entry leads to; the other root
\* entries are the kernel's identity mappings.
mspace_pages(S, root) ==
  LET e == S.mem[root].pte[VPN2(UMEM_START_VMA)]
  IN  ({root} \ {main_pt2})
      \cup (IF PTE_VALID(e) /\ ~PTE_LEAF(e) THEN ptab_pages(S, e.ppn, ROOT_LEVEL - 1) ELSE {})
held_pages(S) == UNION {mspace_pages(S, root) : root \in S.spaces}

\* C16: between memory calls of a running kernel every pool page is either
\* free or held by a live address space, never both and never neither: the
\* free page count plus the number of held pages is the number of pages (so
\* that a fork followed by the exit of the child leaves the free page count
\* as it was).
C16_PagesAccounted ==
  M.sys = "run" =>
    /\ free_phys_page_count(M, 1) + Cardinality(held_pages(M)) = NPages
    /\ free_pages(M) \cap held_pages(M) = {}
    /\ free_pages(M) \cup held_pages(M) = 0 .. (NPages - 1)

(***************************************************************************)
(* FORK AND ITS RESOURCES  (process.c)                                     *)
(***************************************************************************)
\* Descriptors per process in the model (the code has PROCESS_IOMAX 16).
PROCESS_IOMAX == 2
\* I/O objects open in the system.
NIo == 2
\* Calls of process_fork, process_exit and thread_join in one run.
MaxForkOps == 5
\* An empty slot of proctab; a process is its thread, its mtag and its iotab.
NoProcess == [tid |-> NULL, mtag |-> NULL, iotab |-> [fd \in 0 .. (PROCESS_IOMAX - 1) |-> NULL]]
\* The resources process_fork works on: the reference counts of the I/O
\* objects, proctab, and the slots of thrtab in use (M is the page pool).
\* ret is the last return value and pre the resources before that call.
resources(S, Mem) ==
  [refcnt |-> S.refcnt, proctab |-> S.proctab, thrtab |-> S.thrtab,
   free |-> free_phys_page_count(Mem, 1)]
procmgr_init(iotab) ==
  [refcnt  |-> [io \in 1 .. NIo |-> Cardinality({fd \in DOMAIN iotab : iotab[fd] = io})],
   proctab |-> [i \in 0 .. (NPROC - 1) |->
                  IF i = 0 THEN [tid |-> MAIN_TID, mtag |-> main_pt2, iotab |-> iotab]
                  ELSE NoProcess],
   thrtab  |-> [t \in Tids |-> t \in {MAIN_TID, IDLE_TID}],
   exited  |-> {},
   ie      |-> TRUE,
   sys     |-> "run",
   ret     |-> [op |-> "none", val |-> 0],
   pre     |-> [refcnt |-> <<>>, proctab |-> <<>>, thrtab |-> <<>>, free |-> 0],
   nops    |-> 0]
\* ioaddref / ioclose on every descriptor of an iotab (d is +1 or -1).
iotab_refs(refcnt, iotab, d) ==
  [io \in DOMAIN refcnt |->
     refcnt[io] + d * Cardinality({fd \in DOMAIN iotab : iotab[fd] = io})]

\* int process_fork(const struct trap_frame * tfr) called by the process in
\* slot par, whose address space is active.  heap tells which kmalloc fails.
\* The result is the state of the process manager, of memory, and the value
\* returned (the handshake with the child through fork.done is left out).
process_fork(S, Mem, par, heap) ==
  IF heap = "nomem_proc" THEN [S |-> S, M |-> Mem, val |-> ErrCode("ENOMEM")]
  ELSE
  Let([S EXCEPT !.refcnt = iotab_refs(@, S.proctab[par].iotab, 1)], LAMBDA S1 :
  Let(clone_ptab(Mem, Mem.satp, ROOT_LEVEL), LAMBDA c :
  Let([c.S EXCEPT !.spaces = IF c.S.sys = "run" THEN @ \cup {c.pt} ELSE @], LAMBDA Mem1 :
    IF Mem1.sys # "run" THEN [S |-> [S1 EXCEPT !.sys = "panic"], M |-> Mem1, val |-> NULL]
    ELSE IF \A i \in 0 .. (NPROC - 1) : S1.proctab[i].tid # NULL
    THEN [S |-> S1, M |-> Mem1, val |-> ErrCode("ECHILD")]
    ELSE IF heap = "nomem_tfr"
    THEN [S |-> [S1 EXCEPT !.refcnt = iotab_refs(@, S.proctab[par].iotab, 0 - 1)],
          M |-> Mem1, val |-> ErrCode("ENOMEM")]
    ELSE IF FreeSlots(S1) = {}
    THEN [S |-> [S1 EXCEPT !.refcnt = iotab_refs(@, S.proctab[par].iotab, 0 - 1),
                           !.ie = FALSE],
          M |-> Mem1, val |-> ErrCode("EMTHR")]
    ELSE Let(CHOOSE t \in FreeSlots(S1) : \A u \in FreeSlots(S1) : t <= u, LAMBDA tid :
         Let(CHOOSE i \in 0 .. (NPROC - 1) :
               /\ S1.proctab[i].tid = NULL
               /\ \A j \in 0 .. (i - 1) : S1.proctab[j].tid # NULL, LAMBDA idx :
           [S |-> [S1 EXCEPT !.thrtab[tid] = TRUE,
                             !.proctab[idx] = [tid |-> tid, mtag |-> c.pt,
                                               iotab |-> S.proctab[par].iotab],
                             !.ie = TRUE],
            M |-> Mem1, val |-> tid])))))

\* sysfork by the process in slot par.
ProcessFork(par) ==
  /\ F.sys = "run" /\ M.sys = "run" /\ F.nops < MaxForkOps
  /\ F.proctab[par].tid # NULL
  /\ \E heap \in {"ok", "nomem_proc", "nomem_tfr"} :
     \E R \in {process_fork(F, [M EXCEPT !.satp = F.proctab[par].mtag], par, heap)} :
       /\ F' = [R.S EXCEPT !.ret = [op |-> "fork", val |-> R.val],
                           !.pre = resources(F, M), !.nops = @ + 1]
       /\ M' = R.M
  /\ UNCHANGED <<K, P>>
\* void process_exit(void) by the process in slot i, not the main process:
\* its descriptors are closed, its address space discarded, its slot of
\* proctab cleared; its thread exits and keeps its slot until it is joined.
ProcessExit(i) ==
  /\ F.sys = "run" /\ M.sys = "run" /\ F.nops < MaxForkOps
  /\ i # 0 /\ F.proctab[i].tid # NULL
  /\ F' = [F EXCEPT !.refcnt = iotab_refs(@, F.proctab[i].iotab, 0 - 1),
                    !.proctab[i] = NoProcess,
                    !.exited = @ \cup {F.proctab[i].tid},
                    !.ret = [op |-> "exit", val |-> 0], !.nops = @ + 1]
  /\ \E S1 \in {reset_active_mspace([M EXCEPT !.satp = F.proctab[i].mtag])} :
       M' = [free_phys_pages(S1, S1.satp, 1)
               EXCEPT !.satp = main_pt2, !.spaces = @ \ {S1.satp}]
  /\ UNCHANGED <<K, P>>
\* int thread_join(int tid) on an exited child: thread_reclaim frees its slot.
ProcessJoin(t) ==
  /\ F.sys = "run" /\ F.nops < MaxForkOps
  /\ t \in F.exited
  /\ F' = [F EXCEPT !.thrtab[t] = FALSE, !.exited = @ \ {t},
                    !.ret = [op |-> "join", val |-> t], !.nops = @ + 1]
  /\ UNCHANGED <<K, P, M>>

\* open_device on the device io (vioblk_open, viorng_open): ioaddref on the
\* device's I/O object, which is the object returned.
open_device(S, io) == [S EXCEPT !.refcnt[io] = @ + 1]
\* static int allocate_fd(int fd, struct io * io) for the process in slot i:
\* fd = -1 takes the lowest empty descriptor.
allocate_fd(S, i, fd, io) ==
  IF fd = 0 - 1
  THEN IF \E d \in 0 .. (PROCESS_IOMAX - 1) : S.proctab[i].iotab[d] = NULL
       THEN Let(CHOOSE d \in 0 .. (PROCESS_IOMAX - 1) :
                  /\ S.proctab[i].iotab[d] = NULL
                  /\ \A e \in 0 .. (d - 1) : S.proctab[i].iotab[e] # NULL, LAMBDA d :
              [S |-> [S EXCEPT !.proctab[i].iotab[d] = io], val |-> d])
       ELSE [S |-> S, val |-> ErrCode("EMFILE")]
  ELSE IF fd < 0 \/ fd >= PROCESS_IOMAX THEN [S |-> S, val |-> ErrCode("EBADFD")]
  ELSE IF S.proctab[i].iotab[fd] # NULL THEN [S |-> S, val |-> ErrCode("EBADFD")]
  ELSE [S |-> [S EXCEPT !.proctab[i].iotab[fd] = io], val |-> fd]
\* int sysdevopen(int fd, const char * name, int instno) by the process in
\* slot i, the name being that of the device io.
sysdevopen(S, i, fd, io) == allocate_fd(open_device(S, io), i, fd, io)
\* The same call with the reference dropped and the descriptor left in place.
sysclose_keeps_slot(S, i, fd) ==
  IF fd < 0 \/ fd >= PROCESS_IOMAX THEN [S |-> S, val |-> ErrCode("EBADFD")]
  ELSE IF S.proctab[i].iotab[fd] = NULL THEN [S |-> S, val |-> ErrCode("EBADFD")]
  ELSE [S |-> [S EXCEPT !.refcnt[S.proctab[i].iotab[fd]] = @ - 1], val |-> 0]
\* int sysclose(int fd) by the process in slot i: process_get_io, the slot
\* cleared, ioclose.
sysclose(S, i, fd) ==
  IF fd < 0 \/ fd >= PROCESS_IOMAX THEN [S |-> S, val |-> ErrCode("EBADFD")]
  ELSE IF S.proctab[i].iotab[fd] = NULL THEN [S |-> S, val |-> ErrCode("EBADFD")]
  ELSE [S |-> [S EXCEPT !.proctab[i].iotab[fd] = NULL,
                        !.refcnt[S.proctab[i].iotab[fd]] = @ - 1],
        val |-> 0]
SysDevOpen(i) ==
  /\ F.sys = "run" /\ M.sys = "run" /\ F.nops < MaxForkOps
  /\ F.proctab[i].tid # NULL
  /\ \E fd \in (0 - 1) .. PROCESS_IOMAX, io \in 1 .. NIo :
     \E R \in {sysdevopen(F, i, fd, io)} :
       F' = [R.S EXCEPT !.ret = [op |-> "open", val |-> R.val],
                        !.pre = resources(F, M), !.nops = @ + 1]
  /\ UNCHANGED <<K, P, M>>
SysClose(i) ==
  /\ F.sys = "run" /\ M.sys = "run" /\ F.nops < MaxForkOps
  /\ F.proctab[i].tid # NULL
  /\ \E fd \in (0 - 1) .. PROCESS_IOMAX :
     \E R \in {sysclose(F, i, fd)} :
       F' = [R.S EXCEPT !.ret = [op |-> "close", val |-> R.val],
                        !.pre = resources(F, M), !.nops = @ + 1]
  /\ UNCHANGED <<K, P, M>>

\* The main process with some descriptors open, with or without user pages.
InitProcmgr ==
  /\ K = K0 /\ P = P0
  /\ M \in {M0, alloc_and_map_range(M0, UMEM_START_VMA, 1, {"R", "W", "U"})}
  /\ \E iotab \in [0 .. (PROCESS_IOMAX - 1) -> {NULL} \cup (1 .. NIo)] : F = procmgr_init(iotab)
NextProcmgr ==
  \/ \E i \in 0 .. (NPROC - 1) : ProcessFork(i) \/ ProcessExit(i)
  \/ \E i \in 0 .. (NPROC - 1) : SysDevOpen(i) \/ SysClose(i)
  \/ \E t \in Tids : ProcessJoin(t)
SpecProcmgr == InitProcmgr /\ [][NextProcmgr]_vars

\* C17: when process_fork has failed, whatever the step, the reference count
\* of every I/O object, the free page count, the process table and the
\* thread table are what they were before the call.
C17_ForkFailureReleases ==
  (F.sys = "run" /\ F.ret.op = "fork" /\ F.ret.val < 0) => resources(F, M) = F.pre

(***************************************************************************)
(* DEMAND PAGING  (memory.c)                                               *)
(***************************************************************************)
\* User accesses in one run.
MaxAccesses == 4
\* int handle_umode_page_fault(struct trap_frame * tfr, uintptr_t vma) for a
\* vma of the user region: a new zeroed page is mapped at vma with R and U,
\* and W for a store fault, X for an instruction fault, whatever vma mapped.
handle_umode_page_fault(S, vma, cause) ==
  Let(alloc_phys_pages(S, 1), LAMBDA a :
      IF a.pp = NULL THEN a.S
      ELSE map_page([a.S EXCEPT !.mem[a.pp] = ZeroPage], vma, a.pp,
                    {"R", "U"} \cup (IF cause = "store" THEN {"W"} ELSE {})
                               \cup (IF cause = "instr" THEN {"X"} ELSE {})))
\* The access of a kind that the translation of vma allows in user mode.
may_access(S, vma, kind) ==
  /\ Translate(S, S.satp, vma) # NULL
  /\ {"U", IF kind = "load" THEN "R" ELSE IF kind = "store" THEN "W" ELSE "X"}
       \subseteq LeafOf(S, S.satp, vma).flags
\* A user instruction loads from, stores to or is fetched from vma: without
\* the permission it takes a page fault of its kind, the handler runs and the
\* instruction is executed again.  F.acc is the access, whether it faulted
\* and whether the handler had run for its page before, and the byte its
\* page holds afterwards; F.val is the byte the program stored in each page.
UserAccess ==
  /\ M.sys = "run" /\ F.naccess < MaxAccesses
  /\ \E vma \in MapVAs, kind \in {"load", "store", "instr"} :
     \E fault \in {~may_access(M, vma, kind)} :
     \E S1 \in {IF fault THEN handle_umode_page_fault(M, vma, kind) ELSE M} :
     \E S2 \in {IF S1.sys = "run" /\ kind = "store"
                THEN [S1 EXCEPT !.mem[Translate(S1, S1.satp, vma)].d = 1] ELSE S1} :
       /\ M' = S2
       /\ F' = [F EXCEPT !.acc = [vma |-> vma, kind |-> kind, fault |-> fault,
                                  second |-> vma \in F.handled,
                                  read |-> IF S2.sys = "run"
                                           THEN S2.mem[Translate(S2, S2.satp, vma)].d
                                           ELSE 0],
                        !.handled = IF fault THEN @ \cup {vma} ELSE @,
                        !.val[vma] = IF kind = "store" THEN 1 ELSE @,
                        !.naccess = @ + 1]
  /\ UNCHANGED <<K, P>>

\* int validate_vptr(const void *vp, size_t len, int rwxu_flags) for a range
\* within one page, and validate_vstr for a string within one page: the walk
\* of the active page table; 0, or EACCESS when an entry is not valid or the
\* leaf lacks one of the flags.
validate_vptr(S, vp, rwxu_flags) ==
  IF Translate(S, S.satp, vp) # NULL /\ rwxu_flags \subseteq LeafOf(S, S.satp, vp).flags
  THEN "" ELSE "EACCESS"
\* What a system call did with the pointers it was given: chk is the
\* validations that passed (pointer and flags), acc the loads and stores
\* the kernel then made through user-supplied pointers.
NoSyscall == [call |-> "none", chk |-> {}, acc |-> {}, err |-> ""]
syscall_ptrs(call, chk, acc, err) == [call |-> call, chk |-> chk, acc |-> acc, err |-> err]
\* A handler that validates vp with flags and then has the kernel access the
\* memory (kind is load or store); flags = {} stands for no validation.
validated_access(S, call, vp, rwxu_flags, kind, fdok) ==
  IF ~fdok THEN syscall_ptrs(call, {}, {}, "EBADFD")
  ELSE IF rwxu_flags # {} /\ validate_vptr(S, vp, rwxu_flags) # ""
  THEN syscall_ptrs(call, {}, {}, validate_vptr(S, vp, rwxu_flags))
  ELSE syscall_ptrs(call,
                    IF rwxu_flags = {} THEN {} ELSE {[ptr |-> vp, flags |-> rwxu_flags]},
                    IF kind = "none" THEN {} ELSE {[ptr |-> vp, kind |-> kind]}, "")
\* long sysread(int fd, void * buf, size_t bufsz): io->intf->read stores into buf.
SysReadPtr(buf, fdok) ==
  /\ M.sys = "run" /\ F.naccess < MaxAccesses
  /\ F' = [F EXCEPT !.sc = validated_access(M, "read", buf, {"U", "R"}, "store", fdok)]
  /\ UNCHANGED <<K, P, M>>
\* long syswrite(int fd, const void * buf, size_t len): the data is loaded from buf.
SysWritePtr(buf, fdok) ==
  /\ M.sys = "run" /\ F.naccess < MaxAccesses
  /\ F' = [F EXCEPT !.sc = validated_access(M, "write", buf, {"U", "W"}, "load", fdok)]
  /\ UNCHANGED <<K, P, M>>
\* sysprint, sysdevopen, sysfsopen, sysfscreate, sysfsdelete: the name is
\* checked by validate_vstr and then read.
SysNamePtr(name) ==
  /\ M.sys = "run" /\ F.naccess < MaxAccesses
  /\ F' = [F EXCEPT !.sc = validated_access(M, "name", name, {"U", "R"}, "load", TRUE)]
  /\ UNCHANGED <<K, P, M>>
\* int sysioctl(int fd, int cmd, void * arg): arg goes to the endpoint's cntl
\* as it is; seekio_cntl stores through it for GETPOS and loads for SETPOS.
SysIoctlPtr(arg, cmd, fdok) ==
  /\ M.sys = "run" /\ F.naccess < MaxAccesses
  /\ F' = [F EXCEPT !.sc = validated_access(M, cmd, arg, {},
                               IF cmd = "IOCTL_GETPOS" THEN "store"
                               ELSE IF cmd = "IOCTL_SETPOS" THEN "load" ELSE "none", fdok)]
  /\ UNCHANGED <<K, P, M>>
\* int syspipe(int *wfdptr, int *rfdptr): EINVAL for a null pointer, EMFILE
\* when the iotab is full, else both descriptors are stored.
SysPipePtr(wfdptr, rfdptr, full) ==
  /\ M.sys = "run" /\ F.naccess < MaxAccesses
  /\ F' = [F EXCEPT !.sc =
              IF wfdptr = NULL THEN syscall_ptrs("pipe", {}, {}, "EINVAL")
              ELSE IF full THEN syscall_ptrs("pipe", {}, {}, "EMFILE")
              ELSE syscall_ptrs("pipe", {}, {[ptr |-> wfdptr, kind |-> "store"],
                                              [ptr |-> rfdptr, kind |-> "store"]}, "")]
  /\ UNCHANGED <<K, P, M>>

InitFault ==
  /\ K = K0 /\ P = P0 /\ M = M0
  /\ F = [acc |-> [vma |-> NULL, kind |-> "none", fault |-> FALSE, second |-> FALSE,
                   read |-> 0],
          handled |-> {}, val |-> [vma \in MapVAs |-> 0], naccess |-> 0,
          sc |-> NoSyscall]
NextFault ==
  \/ UserAccess
  \/ \E vp \in MapVAs, fdok \in BOOLEAN :
       \/ SysReadPtr(vp, fdok) \/ SysWritePtr(vp, fdok) \/ SysNamePtr(vp)
       \/ \E cmd \in {"IOCTL_GETBLKSZ", "IOCTL_GETPOS", "IOCTL_SETPOS"} :
            SysIoctlPtr(vp, cmd, fdok)
  \/ \E wfdptr \in MapVAs \cup {NULL}, rfdptr \in MapVAs, full \in BOOLEAN :
       SysPipePtr(wfdptr, rfdptr, full)
SpecFault == InitFault /\ [][NextFault]_vars

\* C18: an access to a page of the user region for which the demand-fault
\* handler has already run does not fault, whether it is a load, a store or
\* an instruction fetch.
C18_SecondAccessNoFault ==
  F.acc.second => ~F.acc.fault

\* C19: every load or store a system call makes through a pointer the user
\* supplied comes after a validation of that pointer that passed and asked
\* for U and for the permission of the access: R for a load, W for a store.
C19_PointersValidated ==
  \A a \in F.sc.acc :
    \E c \in F.sc.chk :
      c.ptr = a.ptr /\ {"U", IF a.kind = "load" THEN "R" ELSE "W"} \subseteq c.flags

(***************************************************************************)
(* CLAIMS ON THE THREAD MANAGER  (thread.c)                                *)
(***************************************************************************)
\* C21: a call of thread_join(tid) in which tid > 0 is not a child of the
\* caller (a free slot or a thread with another parent), or tid = 0 and the
\* caller has no child, returns -EINVAL to the caller: the kernel keeps
\* running, the caller is still the running thread and no slot of thrtab is
\* reclaimed.
C21_JoinNonChildEinval ==
  [][\A tid \in Tids : \A o \in JoinOutcomes(K, tid) :
       (/\ MayCall
        /\ IF tid = 0 THEN \A i \in Tids : ~(K.thrtab[i] /\ K.parent[i] = K.TP)
           ELSE ~K.thrtab[tid] \/ K.parent[tid] # K.TP
        /\ K' = Called(thread_join(K, tid, o)))
       => (/\ K'.sys = "run"
           /\ K'.ret.op = "join" /\ K'.ret.err = "-EINVAL"
           /\ K'.TP = K.TP /\ K'.thrtab = K.thrtab)]_vars

(***************************************************************************)
(* THE DIRECTORY OVER TIME  (ktfs.c)                                       *)
(***************************************************************************)
\* Filesystem calls in one run of the directory specification.
MaxDirOps == 6
\* The mounted filesystem together with what its callers know: live is the
\* names whose create returned 0 and whose delete has not, dir the last call.
dir_mount(image, live) ==
  ktfs_mount("ktfs.c", image) @@ [live |-> live, dir |-> [op |-> "none", name |-> 0, was |-> {}]]
\* The call has been made: its name and the names live when it was made.
dir_called(S, R, op, h, name, pos, buf) ==
  [observe(S, R, op, h, name, pos, buf) EXCEPT
     !.live = IF R.ret.err # "" THEN @
              ELSE IF op = "create" THEN @ \cup {name}
              ELSE IF op = "delete" THEN @ \ {name} ELSE @,
     !.dir = [op |-> op, name |-> name, was |-> S.live]]
DirMay == F.nops < MaxDirOps /\ F.fs_lock.owner = NULL
DirCreate ==
  /\ DirMay
  /\ \E name \in Names : \E R \in {ktfs_create(F, 0, name, FALSE)} :
       F' = dir_called(F, R, "create", 0, name, 0, <<>>)
  /\ UNCHANGED <<K, P, M>>
DirDelete ==
  /\ DirMay
  /\ \E name \in Names : \E R \in {ktfs_delete(F, 0, name, FALSE)} :
       F' = dir_called(F, R, "delete", 0, name, 0, <<>>)
  /\ UNCHANGED <<K, P, M>>
DirOpen ==
  /\ DirMay /\ OpenHandles # Handles
  /\ \E name \in Names : \E R \in {ktfs_open(F, 0, name, FALSE)} :
       F' = dir_called(F, R, "open", 0, name, 0, <<>>)
  /\ UNCHANGED <<K, P, M>>
DirClose ==
  /\ DirMay
  /\ \E h \in OpenHandles : \E R \in {seekio_close(F, h)} :
       F' = dir_called(F, R, "close", h, 0, 0, <<>>)
  /\ UNCHANGED <<K, P, M>>
\* A write that makes the file grow by whole blocks, or within its blocks.
DirWriteat ==
  /\ DirMay
  /\ \E h \in OpenHandles, r \in Ranges :
       \E R \in {ktfs_writeat(F, 0, h, r[1], Fill(r[2], 1), FALSE)} :
         F' = dir_called(F, R, "writeat", h, 0, r[1], Fill(r[2], 1))
  /\ UNCHANGED <<K, P, M>>
InitDir ==
  /\ K = K0 /\ P = P0 /\ M = M0
  /\ \/ F = dir_mount(mkfs(TRUE, 0), {})
     \/ F = dir_mount(populated(NPre), 1 .. NPre)
NextDir == DirCreate \/ DirDelete \/ DirOpen \/ DirClose \/ DirWriteat
SpecDir == InitDir /\ [][NextDir]_vars

\* C22: an open of a name whose create has returned 0 and which has not been
\* deleted since succeeds (the device works and a handle is free).
C22_CreatedOpens ==
  (F.dir.op = "open" /\ F.dir.name \in F.dir.was) => F.ret.err = ""

\* A step in which running_thread_suspend has chosen the thread to switch to.
Dispatches ==
  /\ K'.sys = "run"
  /\ Top(K', K'.TP).pc = "swtch"
  /\ K'.TP # K.TP \/ Top(K, K.TP).pc # "swtch"
IsPrefix(a, b) == Len(a) <= Len(b) /\ SubSeq(b, 1, Len(a)) = a
AddrBits == 5
AddrMod == 2 ^ AddrBits
\* Largest number of program headers in one image (e_phnum).
MaxPhnum == 2
\* Number of images loaded in one run.
MaxLoads == 1

\* enum elf_pt
PT_NULL == 0
PT_LOAD == 1

\* struct elf64_phdr, the fields elf_load reads.
Phdr(type, vaddr, filesz, memsz) ==
    [p_type |-> type, p_vaddr |-> vaddr, p_filesz |-> filesz, p_memsz |-> memsz]
\* Field values around the ends of the user region and of the word.
ElfAddrs == {0, UMEM_START_VMA - 1, UMEM_START_VMA, UMEM_START_VMA + 1,
             UMEM_END_VMA - 1, UMEM_END_VMA, AddrMod - 1}
ElfSizes == {0, 1, 2, UMEM_END_VMA - UMEM_START_VMA, UMEM_END_VMA - UMEM_START_VMA + 1,
             AddrMod - 1}
ElfFileSizes == {0, 1, 2, 3}
Phdrs == {Phdr(t, v, f, m) : t \in {PT_NULL, PT_LOAD}, v \in ElfAddrs,
                             f \in ElfFileSizes, m \in ElfSizes}

\* What a call of elf_load has done: its return value, the number of program
\* headers it read, and its calls of alloc_and_map_range and of ioreadat into
\* user memory, each with the index of the header it was made for.
ElfResult(val, n, maps, reads, sys) ==
    [val |-> val, n |-> n, maps |-> maps, reads |-> reads, sys |-> sys]

\* The loop of elf_load from program header i on.  short is the index of the
\* header whose segment the file is too short for (0: none).
RECURSIVE elf_segments(_, _, _, _, _)
elf_segments(hdrs, i, short, maps, reads) ==
    IF i > Len(hdrs) THEN ElfResult("", i - 1, maps, reads, "run")
    ELSE LET phdr == hdrs[i]
             maps1 == Append(maps, [seg |-> i, vma |-> phdr.p_vaddr, size |-> phdr.p_memsz])
             reads1 == Append(reads, [seg |-> i, vma |-> phdr.p_vaddr, len |-> phdr.p_filesz])
         IN  IF phdr.p_type # PT_LOAD THEN elf_segments(hdrs, i + 1, short, maps, reads)
             ELSE IF \/ phdr.p_vaddr < UMEM_START_VMA
                     \/ (phdr.p_vaddr + phdr.p_memsz) % AddrMod > UMEM_END_VMA
             THEN ElfResult("EINVAL", i, maps, reads, "run")
             ELSE IF short = i THEN ElfResult("EIO", i, maps1, reads1, "run")
             \* memset of p_memsz - p_filesz bytes: a negative difference wraps
             \* to a length that runs off the mapped pages.
             ELSE IF (phdr.p_memsz - phdr.p_filesz) % AddrMod > phdr.p_memsz
             THEN ElfResult("", i, maps1, reads1, "fault")
             ELSE elf_segments(hdrs, i + 1, short, maps1, reads1)

\* int elf_load(struct io * elfio, void (**eptr)(void))
elf_load(ehdr, hdrs, short) ==
    IF ehdr = "short" THEN ElfResult("EIO", 0, <<>>, <<>>, "run")
    ELSE IF ehdr = "magic" THEN ElfResult("EBADFMT", 0, <<>>, <<>>, "run")
    ELSE IF ehdr = "class" THEN ElfResult("EINVAL", 0, <<>>, <<>>, "run")
    ELSE elf_segments(hdrs, 1, short, <<>>, <<>>)

\* A process loads an image: the ELF header, the program headers and the
\* length of the file are the input.
ElfLoad ==
  /\ F.loads < MaxLoads
  /\ \E ehdr \in {"ok", "short", "magic", "class"}, n \in 1 .. MaxPhnum :
    \E hdrs \in [1 .. n -> Phdrs], short \in 0 .. n :
      /\ F' = [hdrs |-> hdrs, ret |-> elf_load(ehdr, hdrs, short), loads |-> F.loads + 1]
      /\ UNCHANGED <<K, P, M>>

InitElf ==
  /\ K = K0 /\ P = P0 /\ M = M0
  /\ F = [hdrs |-> <<>>, ret |-> ElfResult("", 0, <<>>, <<>>, "run"), loads |-> 0]
NextElf == ElfLoad
SpecElf == InitElf /\ [][NextElf]_vars

\* The conditions of the specification on a PT_LOAD header, in unbounded
\* arithmetic: the file part fits the memory part and the range lies in the
\* user region.
valid_segment(phdr) ==
  /\ phdr.p_filesz <= phdr.p_memsz
  /\ UMEM_START_VMA <= phdr.p_vaddr
  /\ phdr.p_vaddr + phdr.p_memsz <= UMEM_END_VMA

\* C24: a PT_LOAD header the loader has read and that is not a valid segment
\* makes elf_load return EINVAL with nothing mapped or read for that segment.
C24_BadSegmentRejected ==
  \A j \in 1 .. Len(F.hdrs) :
    (F.ret.n >= j /\ F.hdrs[j].p_type = PT_LOAD /\ ~valid_segment(F.hdrs[j]))
      => /\ F.ret.sys = "run" /\ F.ret.val = "EINVAL"
         /\ \A k \in 1 .. Len(F.ret.maps) : F.ret.maps[k].seg # j
         /\ \A k \in 1 .. Len(F.ret.reads) : F.ret.reads[k].seg # j

\* ---------------------------------------------------------------------------
\* THE VIRTIO BLOCK DEVICE DRIVER (src/src/sys/dev/vioblk.c)
\* ---------------------------------------------------------------------------

\* Bytes in a block (dev->blksz) and blocks on the device, scaled down.
VioBlkSz == 2
VioNBlk == 2
\* A block of data is one value; 0 is what the disk and a read buffer hold at first.
VioMaxVal == 2
\* Number of readat and writeat calls of one run.
MaxBlkOps == 3

VIRTIO_BLK_T_IN == 0
VIRTIO_BLK_T_OUT == 1

VioPos == 0 .. (VioBlkSz * (VioNBlk - 1))
VioLens == {1} \cup {VioBlkSz * n : n \in 1 .. VioNBlk}
VioData(n) == [1 .. n -> 1 .. VioMaxVal]
NoBlkCall == [type |-> VIRTIO_BLK_T_IN, sector |-> 0, n |-> 0, id |-> 0]
NoBlkRet == [op |-> "none", pos |-> 0, len |-> 0, val |-> 0, err |-> "", data |-> <<>>]

\* The caller submits the chain of three descriptors (header, data, status),
\* increments avail.idx and notifies the device, which takes the request; a
\* position or length that is not a multiple of the block size returns EINVAL.
vioblk_submit(S, type, opname, pos, len, data) ==
    IF pos % S.blksz # 0 \/ len % S.blksz # 0
    THEN [S EXCEPT !.ret = [op |-> opname, pos |-> pos, len |-> len,
                            val |-> 0 - 1, err |-> "EINVAL", data |-> <<>>],
                   !.nops = @ + 1]
    ELSE LET call == [type |-> type, sector |-> pos \div S.blksz,
                      n |-> len \div S.blksz, id |-> S.nops + 1]
         IN  [S EXCEPT !.call = call, !.buf = data,
                       !.avail_idx = @ + 1,
                       !.dev = Append(@, call @@ [data |-> data]),
                       !.ret = NoBlkRet, !.pc = "notified", !.nops = @ + 1]

BlkMay == F.pc = "idle" /\ F.nops < MaxBlkOps

\* long vioblk_readat(io, pos, buf, bufsz), up to virtio_notify_avail.  The
\* caller's buffer holds zeros, as the buffers of the test do.
VioblkReadat(pos, len) ==
  /\ BlkMay
  /\ pos + len <= VioBlkSz * VioNBlk
  /\ F' = vioblk_submit(F, VIRTIO_BLK_T_IN, "readat", pos, len,
                        [i \in 1 .. (len \div VioBlkSz) |-> 0])
  /\ UNCHANGED <<K, P, M>>

\* long vioblk_writeat(io, pos, buf, len), up to virtio_notify_avail.
VioblkWriteat(pos, len) ==
  /\ BlkMay
  /\ pos + len <= VioBlkSz * VioNBlk
  /\ \E data \in VioData(len \div VioBlkSz) :
       F' = vioblk_submit(F, VIRTIO_BLK_T_OUT, "writeat", pos, len, data)
  /\ UNCHANGED <<K, P, M>>

\* pie = disable_interrupts(); while (last_used_idx == used.idx) {
\* restore_interrupts(pie); ...: one test of the loop condition with
\* interrupts disabled, and the restore that follows it on either branch.
VioblkTest ==
  /\ F.pc = "notified"
  /\ F' = [F EXCEPT !.pc = IF F.last_used_idx = F.used_idx THEN "prewait" ELSE "finish"]
  /\ UNCHANGED <<K, P, M>>

\* condition_wait(&dev->data_cond), called with interrupts enabled.
VioblkWait ==
  /\ F.pc = "prewait"
  /\ F' = [F EXCEPT !.pc = "waiting"]
  /\ UNCHANGED <<K, P, M>>

\* After the loop: last_used_idx++, the status byte (0 unless the device has
\* reported an error) is tested, the descriptors are cleared and the length
\* is returned.  exp is the data of the writes that returned their length.
VioblkFinish ==
  /\ F.pc = "finish"
  /\ F' = [F EXCEPT
             !.pc = "idle",
             !.last_used_idx = @ + 1,
             !.ret = [op |-> IF F.call.type = VIRTIO_BLK_T_IN THEN "readat" ELSE "writeat",
                      pos |-> F.call.sector * F.blksz, len |-> F.call.n * F.blksz,
                      val |-> F.call.n * F.blksz, err |-> "", data |-> F.buf],
             !.exp = [b \in DOMAIN @ |->
                        IF /\ F.call.type = VIRTIO_BLK_T_OUT
                           /\ F.call.sector <= b /\ b < F.call.sector + F.call.n
                        THEN F.buf[b - F.call.sector + 1] ELSE @[b]]]
  /\ UNCHANGED <<K, P, M>>

\* The device performs the oldest request it has taken: it transfers the data
\* (into the buffer of the caller if the call is still in progress), writes
\* the status byte, adds the chain to the used ring (used.idx++) and raises
\* its interrupt.
DeviceComplete ==
  /\ F.dev # <<>>
  /\ LET r == Head(F.dev)
     IN  F' = [F EXCEPT
                 !.dev = Tail(@),
                 !.disk = [b \in DOMAIN @ |->
                             IF /\ r.type = VIRTIO_BLK_T_OUT
                                /\ r.sector <= b /\ b < r.sector + r.n
                             THEN r.data[b - r.sector + 1] ELSE @[b]],
                 !.buf = IF r.type = VIRTIO_BLK_T_IN /\ F.pc # "idle" /\ F.call.id = r.id
                         THEN [i \in 1 .. r.n |-> F.disk[r.sector + i - 1]] ELSE @,
                 !.used_idx = @ + 1,
                 !.irq = TRUE]
  /\ UNCHANGED <<K, P, M>>

\* static void vioblk_isr(int srcno, void * aux), taken while interrupts are
\* enabled: acknowledges, advances last_used_idx to used.idx and broadcasts
\* data_cond, after which a waiting caller goes round its loop.
VioblkIsr ==
  /\ F.irq
  /\ F' = [F EXCEPT !.irq = FALSE,
                    !.last_used_idx = F.used_idx,
                    !.pc = IF @ = "waiting" THEN "notified" ELSE @]
  /\ UNCHANGED <<K, P, M>>

\* vioblk_attach and vioblk_open: an empty virtqueue, a disk of zeros.
InitBlk ==
  /\ K = K0 /\ P = P0 /\ M = M0
  /\ F = [blksz |-> VioBlkSz, pc |-> "idle", call |-> NoBlkCall, buf |-> <<>>,
          avail_idx |-> 0, used_idx |-> 0, last_used_idx |-> 0,
          dev |-> <<>>, irq |-> FALSE,
          disk |-> [b \in 0 .. (VioNBlk - 1) |-> 0],
          exp |-> [b \in 0 .. (VioNBlk - 1) |-> 0],
          ret |-> NoBlkRet, nops |-> 0]
NextBlk ==
  \/ \E pos \in VioPos, len \in VioLens : VioblkReadat(pos, len)
  \/ \E pos \in VioPos, len \in VioLens : VioblkWriteat(pos, len)
  \/ VioblkTest
  \/ VioblkWait
  \/ VioblkFinish
  \/ DeviceComplete
  \/ VioblkIsr
SpecBlk == InitBlk /\ [][NextBlk]_vars

\* The caller sleeps on data_cond while the device has nothing left to
\* complete and no interrupt is outstanding: nothing will wake it.
BlkAsleepForGood == F.pc = "waiting" /\ F.dev = <<>> /\ ~F.irq

\* C25: a block-aligned writeat returns its length, a block-aligned readat
\* returns its length and, for blocks written before, the bytes of the last
\* write that returned; and no call is left asleep with its request completed.
C25_BlockRoundTrip ==
  /\ ~BlkAsleepForGood
  /\ (F.pc = "idle" /\ F.ret.op \in {"readat", "writeat"}
        /\ F.ret.pos % VioBlkSz = 0 /\ F.ret.len % VioBlkSz = 0)
       => F.ret.val = F.ret.len
  /\ (F.pc = "idle" /\ F.ret.op = "readat" /\ F.ret.val = F.ret.len)
       => \A i \in 1 .. Len(F.ret.data) :
            F.exp[F.ret.pos \div VioBlkSz + i - 1] # 0
              => F.ret.data[i] = F.exp[F.ret.pos \div VioBlkSz + i - 1]

\* ---------------------------------------------------------------------------
\* DATA BLOCKS OVER TIME (ktfs.c)
\* ---------------------------------------------------------------------------

\* The inode the filesystem holds for a number, and the data blocks the
\* inodes in use (the files and the root directory, whose block ktfs_create
\* allocates) hold: (inode number, slot) of every direct entry naming a block.
fs_inode(S, inum) == ktfs_read_inode(S, inum, FALSE).ino
FileSlots(S) ==
  {x \in (0 .. (inodes_per_block - 1)) \X (1 .. KTFS_NUM_DIRECT_DATA_BLOCKS) :
     /\ fs_inode(S, x[1]).flags = KTFS_FILE_IN_USE
     /\ fs_inode(S, x[1]).block[x[2]] # 0}
HeldBlocks(S) == {fs_inode(S, x[1]).block[x[2]] : x \in FileSlots(S)}
\* The slots a step has filled: the blocks ktfs_alloc_data_block returned in it.
Allocated(S, T) ==
  {x \in FileSlots(T) :
     x \notin FileSlots(S) \/ fs_inode(S, x[1]).block[x[2]] # fs_inode(T, x[1]).block[x[2]]}

\* C26: a block given to an inode in a step had its bitmap bit clear before
\* the step and has it set after, and no inode in use held it before the step.
C26_AllocFresh ==
  [][\A x \in Allocated(F, F') :
       LET blk == fs_inode(F', x[1]).block[x[2]]
       IN  /\ data_base + blk \notin fs_block(F, 1)
           /\ data_base + blk \in fs_block(F', 1)
           /\ blk \notin HeldBlocks(F)]_vars

\* ---------------------------------------------------------------------------
\* INVARIANTS OF THE THREAD MANAGER (part_005)
\* ---------------------------------------------------------------------------

\* C27: whenever interrupts are enabled (an interrupt handler can run and see
\* the threads), the thread in the thread-pointer register has state self
\* and no other thread has.
C27_OneSelfIsTP ==
  (K.sys = "run" /\ K.ie) =>
    /\ K.tstate[K.TP] = THREAD_SELF
    /\ \A t \in Tids : (K.thrtab[t] /\ K.tstate[t] = THREAD_SELF) => t = K.TP

\* The locks linked from a thread's lock_list, in order (at most NLOCK + 1
\* links followed).
RECURSIVE LockChain(_, _, _)
LockChain(S, lock, n) ==
    IF lock = NULL \/ n = 0 THEN <<>>
    ELSE <<lock>> \o LockChain(S, S.lock[lock].next, n - 1)
HeldLocks(S, t) == LockChain(S, S.lock_list[t], NLOCK + 1)
Occurrences(seq, x) == Cardinality({i \in 1 .. Len(seq) : seq[i] = x})

\* C28: while no thread is inside lock_acquire (lock_release is one step),
\* a lock has a count above 0 exactly when it has an owner, and it is
\* once on the lock_list of its owner and on no other thread's.
C28_LockLists ==
  (K.sys = "run" /\ \A t \in Tids : ~InCall(K, t, "acq")) =>
    \A l \in Locks :
      /\ (K.lock[l].count > 0) <=> (K.lock[l].owner # NULL)
      /\ \A t \in Tids :
           Occurrences(HeldLocks(K, t), l) = IF K.lock[l].owner = t THEN 1 ELSE 0
      /\ K.lock[l].owner # NULL => K.lock[l].owner \in Tids

SleepSeq(S) == alarm_chain(S, S.sleep_list, NSleepers + 1)

\* C30: the insertion of an alarm does not stop the kernel, the alarm of
\* every thread suspended in alarm_sleep is on the sleep list exactly once,
\* and the wake times along the list do not decrease.
C30_SleepListSorted ==
  /\ F.sys = "run"
  /\ \A t \in Sleepers : F.at[t] = "sleep" => Occurrences(SleepSeq(F), t) = 1
  /\ \A i \in 1 .. Len(SleepSeq(F)) : \A j \in 1 .. Len(SleepSeq(F)) :
       i < j => F.twake[SleepSeq(F)[i]] <= F.twake[SleepSeq(F)[j]]

\* ---------------------------------------------------------------------------
\* THE CACHE'S SIZE COUNTER (cache.c)
\* ---------------------------------------------------------------------------

\* C31: after any sequence of get_block, release_block and flush calls,
\* failing ones included, the cache holds at most CACHE_CAPACITY entries and
\* its size counter equals the number of entries on its list.
C31_SizeCountsEntries ==
  /\ Len(F.cache) <= CACHE_CAPACITY
  /\ F.size = Len(F.cache)

\* C31's case: a get_block on a full cache has failed after it unlinked its
\* victim, and the cache is one entry short of full.
C31_FailedAfterEviction ==
  /\ F.ret.op = "get" /\ F.ret.err # ""
  /\ F.ev.blk # NULL
  /\ F.size = CACHE_CAPACITY - 1

\* ---------------------------------------------------------------------------
\* DESCRIPTORS AND REFERENCE COUNTS (process.c, syscall.c)
\* ---------------------------------------------------------------------------

\* The descriptors, over all processes, that point to the object io.
SlotsOn(S, io) ==
  {<<i, fd>> \in (0 .. (NPROC - 1)) \X (0 .. (PROCESS_IOMAX - 1)) :
     S.proctab[i].tid # NULL /\ S.proctab[i].iotab[fd] = io}

\* C32: between system calls, across open, close, fork and process exit, the
\* reference count of every I/O object is at least the number of descriptors
\* of all processes that point to it.
C32_SlotsHoldReferences ==
  F.sys = "run" => \A io \in 1 .. NIo : F.refcnt[io] >= Cardinality(SlotsOn(F, io))

\* C32's case: a descriptor has been closed while another process, a child
\* made by fork, still has a descriptor on the same object.
C32_ClosedWhileShared ==
  /\ F.ret.op = "close" /\ F.ret.val = 0
  /\ \E io \in 1 .. NIo : \E a \in SlotsOn(F, io) : \E b \in SlotsOn(F.pre, io) :
       /\ b \notin SlotsOn(F, io) /\ a[1] # b[1]
       /\ F.refcnt[io] = Cardinality(SlotsOn(F, io))

\* ---------------------------------------------------------------------------
\* THREAD STATE AND LIST MEMBERSHIP (thread.c)
\* ---------------------------------------------------------------------------

\* The lists a thread is linked on, and the conditions among them.
ListsOf(S, t) == {l \in ListIds : OnList(S, l, t)}
CondsOf(S, t) == ListsOf(S, t) \ {READY_LIST}

\* C33: whenever interrupts are enabled, a thread is on the ready list
\* exactly when its state is ready, on the wait list of exactly one
\* condition exactly when its state is waiting, on no list when it is self
\* or exited, and never on two lists or twice on one list.
C33_StateMatchesLists ==
  (K.sys = "run" /\ K.ie) =>
    \A t \in Tids : K.thrtab[t] =>
      /\ OnList(K, READY_LIST, t) <=> K.tstate[t] = THREAD_READY
      /\ Cardinality(CondsOf(K, t)) = 1 <=> K.tstate[t] = THREAD_WAITING
      /\ K.tstate[t] \in {THREAD_SELF, THREAD_EXITED} => ListsOf(K, t) = {}
      /\ Cardinality(ListsOf(K, t)) <= 1
      /\ \A l \in ListIds : Occurrences(ListSeq(K, l), t) <= 1

\* ---------------------------------------------------------------------------
\* THE INTERRUPT-ENABLE STATE ACROSS CALLS (thread.c)
\* ---------------------------------------------------------------------------

\* C34: a call of the thread manager that disables interrupts (thread_spawn,
\* thread_join, lock_acquire, lock_release, with condition_broadcast inside
\* them) returns with the interrupt-enable state it was entered with: a call
\* that returns without suspending leaves it as it was, and a call that
\* returns after suspending restores the state it saved on entry.
C34_InterruptStateKept ==
  [][(K.sys = "run" /\ K'.sys = "run") =>
       \A t \in Tids :
         /\ (/\ MayCall /\ K.TP = t
             /\ K'.ops = K.ops + 1 /\ K'.TP = t /\ K'.stk[t] = K.stk[t])
            => K'.ie = K.ie
         /\ (/\ Len(K.stk[t]) >= 2 /\ K.stk[t][2].pc \in {"join0", "joinN", "acq"}
             /\ K'.TP = t /\ Len(K'.stk[t]) = 1)
            => K'.ie = K.stk[t][2].pie]_vars

\* ---------------------------------------------------------------------------
\* COMPLETION OF BLOCK-DEVICE CALLS (src/src/sys/dev/vioblk.c)
\* ---------------------------------------------------------------------------

\* The driver under its scheduling: the calling thread keeps running until
\* it suspends in condition_wait, the device completes every request it has
\* taken, and an interrupt raised is taken since the caller runs with
\* interrupts enabled outside its test of the used ring.
SpecBlkFair ==
  /\ InitBlk /\ [][NextBlk]_vars
  /\ WF_vars(VioblkTest) /\ WF_vars(VioblkWait) /\ WF_vars(VioblkFinish)
  /\ WF_vars(DeviceComplete) /\ WF_vars(VioblkIsr)

\* C35: every readat or writeat call that has submitted its request
\* eventually returns, whatever the order of the completion interrupt, the
\* caller's test of the used ring and its wait on data_cond.
C35_CallReturns == (F.pc # "idle") ~> (F.pc = "idle")

\* ---------------------------------------------------------------------------
\* CREATE AND THE OTHER FILES (ktfs.c)
\* ---------------------------------------------------------------------------

\* An image as the image builder lays it out: the root directory occupies
\* data-area block 0 (the root inode's block[0] is 0) and holds the entries of
\* files 1 .. n; file 1 has one data block, data-area block 1, of two bytes.
image0(n) ==
  [b \in 1 .. (NBlocks - 1) |->
     IF b <= fs_sb.bitmap_block_count THEN 0 .. (data_base + 1)
     ELSE IF b < data_base
     THEN [i \in 1 .. inodes_per_block |->
             IF i = fs_sb.root_directory_inode + 1
             THEN [zero_inode EXCEPT !.flags = KTFS_FILE_IN_USE, !.size = n]
             ELSE IF i = 2
             THEN [zero_inode EXCEPT !.flags = KTFS_FILE_IN_USE, !.size = 2, !.block[1] = 1]
             ELSE IF i - 1 <= n THEN [zero_inode EXCEPT !.flags = KTFS_FILE_IN_USE]
             ELSE zero_inode]
     ELSE IF b = data_base THEN [j \in 1 .. KTFS_BLKSZ |-> IF j <= n THEN dentry(j, j) ELSE 0]
     ELSE IF b = data_base + 1 THEN [j \in 1 .. KTFS_BLKSZ |-> IF j <= 2 THEN 1 ELSE 0]
     ELSE zero_block]
InitImg ==
  /\ K = K0 /\ P = P0 /\ M = M0
  /\ \/ F = dir_mount(image0(NPre), 1 .. NPre)
     \/ F = dir_mount(populated(NPre), 1 .. NPre)
SpecImg == InitImg /\ [][NextDir]_vars

\* What ktfs_open finds for a name, and the bytes ktfs_readat returns for the
\* whole of the file it finds.
Lookup(S, name) == open_scan(S, fs_inode(S, fs_sb.root_directory_inode), 0, name)
FileBytes(S, inum) ==
  readat_loop(S, fs_inode(S, inum), 0, fs_inode(S, inum).size, <<>>).buf

\* C36: create(name), whether it succeeds or fails, leaves the other files
\* as they were: each other file that could be opened before the call can be
\* opened afterwards and reads back the same bytes.
C36_CreateKeepsOthers ==
  [][(F'.dir.op = "create" /\ F'.nops = F.nops + 1) =>
       \A n \in 1 .. (NPre + 1) :
         (n # F'.dir.name /\ Lookup(F, n).found) =>
           /\ Lookup(F', n).found
           /\ FileBytes(F', Lookup(F', n).inum) = FileBytes(F, Lookup(F, n).inum)]_vars

\* ---------------------------------------------------------------------------
\* TWO HANDLES ON ONE FILE (ktfs.c)
\* ---------------------------------------------------------------------------

\* Calls in one run of the two-handle specification.
MaxEndOps == 5
\* The struct ktfs_file objects of the run: ktfs_open allocates a new one at
\* each call, whether or not the file is open already.
EndHandles == 0 .. 1
\* ktfs_open whose new struct ktfs_file is the object h.
end_open(S, h, name) ==
  Let(ktfs_open([S EXCEPT !.files = [x \in Handles |-> NoFile]], 0, name, FALSE), LAMBDA R :
      [R EXCEPT !.files = IF R.ret.err = "" THEN [S.files EXCEPT ![h] = R.files[R.ret.val]]
                          ELSE S.files,
                !.nops = @ + 1])
EndOpen(h) ==
  /\ F.nops < MaxEndOps /\ F.files[h].flags = 0
  /\ \E name \in 1 .. 2 : F' = end_open(F, h, name)
  /\ UNCHANGED <<K, P, M>>
EndWriteat(h) ==
  /\ F.nops < MaxEndOps /\ F.files[h].flags # 0
  /\ \E r \in Ranges : \E R \in {ktfs_writeat(F, 0, h, r[1], Fill(r[2], 1), FALSE)} :
       F' = [R EXCEPT !.nops = @ + 1]
  /\ UNCHANGED <<K, P, M>>
\* ioctl(IOCTL_SETEND) with an end of one block up to one block more than
\* the direct blocks hold.
EndSetEnd(h) ==
  /\ F.nops < MaxEndOps /\ F.files[h].flags # 0
  /\ \E k \in 1 .. (KTFS_NUM_DIRECT_DATA_BLOCKS + 1) :
     \E R \in {ktfs_cntl(F, 0, h, k * KTFS_BLKSZ, FALSE)} :
       F' = [R EXCEPT !.nops = @ + 1]
  /\ UNCHANGED <<K, P, M>>
InitEnd ==
  /\ K = K0 /\ P = P0 /\ M = M0
  /\ F = [ktfs_mount("ktfs.c", populated(NPre)) EXCEPT !.files = [h \in EndHandles |-> NoFile]]
NextEnd == \E h \in EndHandles : EndOpen(h) \/ EndWriteat(h) \/ EndSetEnd(h)
SpecEnd == InitEnd /\ [][NextEnd]_vars

\* C37: a writeat or an IOCTL_SETEND, through whichever open handle it is
\* made, leaves the size in the inode of every file at least what it was.
C37_SizeNeverShrinks ==
  [][(F'.ret.op \in {"writeat", "cntl"} /\ F'.nops = F.nops + 1) =>
       \A inum \in 1 .. NPre : fs_inode(F', inum).size >= fs_inode(F, inum).size]_vars

\* ---------------------------------------------------------------------------
\* A GROWTH THAT FAILS (ktfs.c)
\* ---------------------------------------------------------------------------

\* C38: when a writeat or an IOCTL_SETEND fails, the bitmap and the inodes
\* (sizes and block pointers) are what they were before the call.
C38_FailedGrowthLeavesNoBlock ==
  [][(/\ F'.ret.op \in {"writeat", "cntl"} /\ F'.nops = F.nops + 1
      /\ F'.ret.err # "")
       => /\ fs_block(F', 1) = fs_block(F, 1)
          /\ \A inum \in 0 .. NPre : fs_inode(F', inum) = fs_inode(F, inum)]_vars

\* ---------------------------------------------------------------------------
\* A GET_BLOCK THAT FAILS (cache.c)
\* ---------------------------------------------------------------------------

\* C39: when get_block fails, the cache holds every entry it held before the
\* call, with the same data and dirty flag, and every block that was dirty
\* before the call is still dirty in the cache or has been written to the
\* device.
C39_FailedGetKeepsEntries ==
  [][(F'.ret.op = "get" /\ F'.ret.err # "" /\ F'.nops = F.nops + 1) =>
       /\ \A i \in DOMAIN F.cache : \E j \in DOMAIN F'.cache : F'.cache[j] = F.cache[i]
       /\ \A i \in DOMAIN F.cache :
            F.cache[i].dirty =>
              \/ \E j \in DOMAIN F'.cache : F'.cache[j] = F.cache[i]
              \/ F'.disk[F.cache[i].blocknum] = F.cache[i].data]_vars

\* ---------------------------------------------------------------------------
\* THE SEEKABLE WRAPPER AND ITS ENDPOINT (io.c)
\* ---------------------------------------------------------------------------

\* Wrappers created over the endpoint in one run, references other holders
\* have on the endpoint at the start, and calls in one run.
NWrap == 2
MaxEpRef == 2
MaxWrapOps == 5
Wrappers == 1 .. NWrap
\* The endpoint (its refcnt, how often its close routine has run, the
\* references its other holders have) and the wrappers (refcnt 0: not created
\* or freed).  build is the source the kernel is built from.
wrap_init(build, n) ==
  [build |-> build, refcnt |-> n, closed |-> 0, held |-> n,
   sio |-> [w \in Wrappers |-> 0], sys |-> "run",
   ret |-> [op |-> "none", w |-> 0], nops |-> 0]
\* void ioclose(struct io * io) on the endpoint.
endpoint_ioclose(S) ==
  IF S.refcnt = 0 THEN [S EXCEPT !.sys = "assert"]
  ELSE [S EXCEPT !.refcnt = @ - 1, !.closed = IF S.refcnt = 1 THEN @ + 1 ELSE @]
\* struct io * create_seekable_io(struct io * io): sio->bkgio = ioaddref(io),
\* ioinit1 on the wrapper.
seekable_create(S, w) == [S EXCEPT !.refcnt = @ + 1, !.sio[w] = 1]
\* void seekio_close(struct io * io) of io.c: ioclose(sio->bkgio); of
\* part_006: sio->bkgio->refcnt-- first.
seekable_close(S) ==
  IF S.build = "part_006" THEN endpoint_ioclose([S EXCEPT !.refcnt = @ - 1])
  ELSE endpoint_ioclose(S)
\* void ioclose(struct io * io) on the wrapper w.
wrapper_ioclose(S, w) ==
  IF S.sio[w] = 1 THEN seekable_close([S EXCEPT !.sio[w] = 0])
  ELSE [S EXCEPT !.sio[w] = @ - 1]
wrap_ret(S, op, w) == [S EXCEPT !.ret = [op |-> op, w |-> w], !.nops = @ + 1]
WrapMay == F.sys = "run" /\ F.closed = 0 /\ F.nops < MaxWrapOps
WrapCreate(w) ==
  /\ WrapMay /\ F.sio[w] = 0
  /\ F' = wrap_ret(seekable_create(F, w), "create", w)
  /\ UNCHANGED <<K, P, M>>
\* ioaddref on a wrapper (a descriptor copied by fork).
WrapAddRef(w) ==
  /\ WrapMay /\ F.sio[w] > 0
  /\ F' = wrap_ret([F EXCEPT !.sio[w] = @ + 1], "addref", w)
  /\ UNCHANGED <<K, P, M>>
WrapClose(w) ==
  /\ WrapMay /\ F.sio[w] > 0
  /\ F' = wrap_ret(wrapper_ioclose(F, w), "close", w)
  /\ UNCHANGED <<K, P, M>>
\* Another holder of the endpoint gives up one of its references.
EndpointClose ==
  /\ WrapMay /\ F.held > 0
  /\ F' = wrap_ret(endpoint_ioclose([F EXCEPT !.held = @ - 1]), "endpoint_close", 0)
  /\ UNCHANGED <<K, P, M>>
InitWrap ==
  /\ K = K0 /\ P = P0 /\ M = M0
  /\ \E build \in {"io.c", "part_006"}, n \in 0 .. MaxEpRef : F = wrap_init(build, n)
NextWrap ==
  \/ \E w \in Wrappers : WrapCreate(w) \/ WrapAddRef(w) \/ WrapClose(w)
  \/ EndpointClose
SpecWrap == InitWrap /\ [][NextWrap]_vars

\* C40: create_seekable_io takes one reference on the endpoint, and the
\* close of a wrapper (the ioclose that brings the wrapper's own count to
\* zero) releases exactly one: the kernel keeps running, the endpoint's count
\* is one lower, and the endpoint's close routine runs in that step exactly
\* when the wrapper held the last reference.
C40_WrapperNetZero ==
  [][/\ (F'.ret.op = "create" /\ F'.nops = F.nops + 1) => F'.refcnt = F.refcnt + 1
     /\ (/\ F'.ret.op = "close" /\ F'.nops = F.nops + 1
         /\ F.sio[F'.ret.w] = 1)
        => /\ F'.sys = "run"
           /\ F'.refcnt = F.refcnt - 1
           /\ F'.closed # F.closed <=> F.refcnt = 1]_vars

====
